---------------------------- MODULE Spec2Model ----------------------------
(***************************************************************************)
(* A model of miasm2.analysis.mem (src/miasm2/analysis/mem.py) and of the  *)
(* example built on it (src/example/jitter/memstruct.py): type descriptors *)
(* (Num, Ptr, Array, Union, Bits, BitField), the generated struct classes, *)
(* the views pinned on a VmMngr memory, the cache of generated types and   *)
(* the allocator hook.                                                     *)
(*                                                                         *)
(* The module holds several specifications over the same variables, one    *)
(* per part of the library; a variable a specification does not use keeps  *)
(* its initial value.                                                      *)
(***************************************************************************)
EXTENDS Integers, Sequences, FiniteSets, TLC

VARIABLES
    vm,                   \* the VmMngr memory: address -> byte
    last,                 \* the last call made and what it returned or raised
    hist,                 \* the calls made so far, in order
    nops,                 \* number of calls made so far
    views,                \* the PinnedType instances alive: [cls, addr]
    fields,               \* cls.fields of every declared struct class
    _attrs,               \* cls._attrs of every declared struct class
    _size,                \* cls._size of every declared struct class
    _self_type,           \* Type._self_type of every descriptor object
    _dst_type,            \* Ptr._dst_type of every pointer descriptor object
    DYN_MEM_STRUCT_CACHE, \* the cache of generated types: entries [key, type]
    ntypes,               \* number of types generated so far by type(...)
    ALLOCATOR,            \* the allocator installed by set_allocator
    alloc_calls           \* the calls the allocators received: [alloc, size]

vars == <<vm, last, hist, nops, views, fields, _attrs, _size, _self_type,
          _dst_type, DYN_MEM_STRUCT_CACHE, ntypes, ALLOCATOR, alloc_calls>>

classVars == <<fields, _attrs, _size>>
selfVars  == <<_self_type, _dst_type>>
cacheVars == <<DYN_MEM_STRUCT_CACHE, ntypes>>
allocVars == <<ALLOCATOR, alloc_calls>>

None == "None"

\* PinnedType._size = None, for a variable that otherwise holds a number.
NoSize == -1

(***************************************************************************)
(* Bounds of the model.                                                    *)
(***************************************************************************)
\* Number of bytes the VmMngr maps, from address 0.
MemSize == 24
\* Number of Num.set calls of SpecNum.
MaxNumOps == 2
\* Number of field assignments of SpecCast.
MaxCastOps == 3
\* Number of fields of the struct class of SpecLayout.
MaxFields == 3
\* Number of field assignments of SpecLayout.
MaxLayoutOps == 2
\* Number of calls on the view of SpecBits.
MaxBitOps == 3
\* Number of calls of SpecPtr.
MaxPtrOps == 3
\* Number of calls of pin and of the array type generators in SpecCache.
MaxCacheCalls == 3
\* Largest array_len handed to mem_sized_array_type in SpecCache.
MaxArrayLen == 2
\* Number of constructions and set_allocator calls of SpecAlloc.
MaxAllocOps == 3
\* Number of accesses of SpecSlice.
MaxSliceOps == 2
\* Number of assignments of fields and gen_fields calls of SpecGen.
MaxGenOps == 3
\* Number of entries of a bit list of SpecBitField.
MaxBitList == 3
\* Number of declarations and observations of SpecUnbound.
MaxUnboundOps == 3
\* Number of writes of SpecEq.
MaxEqOps == 2
\* Number of pushes and pops of SpecList.
MaxListOps == 4
\* Number of calls of SpecFrame.
MaxFrameOps == 2
\* Number of accesses of SpecArray.
MaxArrayOps == 2
\* Number of calls of SpecStr.
MaxStrOps == 2

(***************************************************************************)
(* The VmMngr: a flat memory; get_mem and set_mem fault outside of it.     *)
(***************************************************************************)
Byte == 0..255

Pow2(n) == 2 ^ n

Mapped(addr, n) == addr >= 0 /\ addr + n <= MemSize

\* vm.get_mem(addr, n): the n bytes at addr, as a sequence.
get_mem(mem, addr, n) == [k \in 1..n |-> mem[addr + k - 1]]

\* vm.set_mem(addr, raw): the memory after writing raw at addr.
set_mem(mem, addr, raw) ==
    [a \in DOMAIN mem |->
        IF a >= addr /\ a < addr + Len(raw) THEN raw[a - addr + 1] ELSE mem[a]]

ZeroMem == [a \in 0..(MemSize - 1) |-> 0]

(***************************************************************************)
(* struct.pack / struct.unpack / struct.calcsize for the one-value formats *)
(* the library is used with.  "B" has the native order, which is           *)
(* irrelevant for one byte.                                                *)
(***************************************************************************)
Formats == {"B", "<B", "<H", ">H", "<I", ">I"}

calcsize(fmt) ==
    CASE fmt \in {"B", "<B"} -> 1
      [] fmt \in {"<H", ">H"} -> 2
      [] fmt \in {"<I", ">I"} -> 4

BigEndian(fmt) == fmt \in {">H", ">I"}

Reverse(s) == [k \in 1..Len(s) |-> s[Len(s) + 1 - k]]

RECURSIVE LowFirst(_, _)
\* The w low bytes of v, least significant first.
LowFirst(v, w) ==
    IF w = 0 THEN <<>> ELSE <<v % 256>> \o LowFirst(v \div 256, w - 1)

RECURSIVE FromLowFirst(_)
FromLowFirst(raw) ==
    IF raw = <<>> THEN 0 ELSE raw[1] + 256 * FromLowFirst(Tail(raw))

\* struct.pack raises struct.error for a number outside the format's range,
\* 0 <= v < 2^(8w), stated without computing 2^32.
CanPack(fmt, v) == v >= 0 /\ v \div Pow2(8 * (calcsize(fmt) - 1)) < 256

struct_pack(fmt, v) ==
    IF BigEndian(fmt) THEN Reverse(LowFirst(v, calcsize(fmt)))
                      ELSE LowFirst(v, calcsize(fmt))

struct_unpack(fmt, raw) ==
    IF BigEndian(fmt) THEN FromLowFirst(Reverse(raw)) ELSE FromLowFirst(raw)


(***************************************************************************)
(* Type descriptors.  A descriptor is a record; `kind` is its class.       *)
(***************************************************************************)
Num(fmt) == [kind |-> "Num", fmt |-> fmt]

\* Ptr(fmt, dst_type): dst is the name of the PinnedType class pointed to.
Ptr(fmt, dst) == [kind |-> "Ptr", fmt |-> fmt, dst |-> dst]

Array(field_type, array_len) ==
    [kind |-> "Array", field_type |-> field_type, array_len |-> array_len]

\* Union(field_list): field_list is a sequence of <<name, field>>.
Union(field_list) == [kind |-> "Union", field_list |-> field_list]

Bits(backing_num, bits, bit_offset) ==
    [kind |-> "Bits", num |-> backing_num, bits |-> bits,
     bit_offset |-> bit_offset]

Max(S) == CHOOSE x \in S : \A y \in S : y <= x

RECURSIVE size(_)
\* field.size(): the size in bytes of the serialized field.
size(field) ==
    CASE field.kind \in {"Num", "Ptr"} -> calcsize(field.fmt)
      [] field.kind = "Array" -> size(field.field_type) * field.array_len
      [] field.kind = "Union" ->
            Max({size(field.field_list[i][2]) :
                    i \in 1..Len(field.field_list)})
      [] field.kind \in {"Bits", "BitField"} -> size(field.num)

(***************************************************************************)
(* Type.set and Type.get of the fields serialized with struct (Num, Ptr).  *)
(***************************************************************************)
\* RawStruct._pack / Num._pack, with a mutant that loses the byte order.
RawStruct_pack_NoOrder(field, val) == LowFirst(val, calcsize(field.fmt))

RawStruct_pack(field, val) == struct_pack(field.fmt, val)

RawStruct_unpack(field, raw) == struct_unpack(field.fmt, raw)

\* Type.set: raw = self._pack(val); vm.set_mem(addr, raw)
Type_set(field, mem, addr, val) == set_mem(mem, addr, RawStruct_pack(field, val))

\* Type.get: raw = vm.get_mem(addr, self.size()); return self._unpack(raw)
Type_get(field, mem, addr) ==
    RawStruct_unpack(field, get_mem(mem, addr, size(field)))

\* What Type.set raises, if anything: struct.error from _pack, then the
\* fault of the VmMngr from set_mem.
Type_set_exc(field, addr, val) ==
    IF ~CanPack(field.fmt, val) THEN "struct.error"
    ELSE IF ~Mapped(addr, size(field)) THEN "VmFault"
    ELSE None

(***************************************************************************)
(* Bits: some bits of a backing Num.  Python's &, |, ~ and shifts on the   *)
(* non-negative numbers the library handles.                               *)
(***************************************************************************)
RECURSIVE Bitwise(_, _, _)
\* op is "and" (a & b), "or" (a | b) or "andnot" (a & ~b), bit by bit.
Bitwise(op, a, b) ==
    IF a = 0 /\ b = 0 THEN 0
    ELSE (CASE op = "and" -> (IF a % 2 = 1 /\ b % 2 = 1 THEN 1 ELSE 0)
            [] op = "or" -> (IF a % 2 = 1 \/ b % 2 = 1 THEN 1 ELSE 0)
            [] op = "andnot" -> (IF a % 2 = 1 /\ b % 2 = 0 THEN 1 ELSE 0))
         + 2 * Bitwise(op, a \div 2, b \div 2)

ShiftLeft(a, n) == a * Pow2(n)

ShiftRight(a, n) == a \div Pow2(n)

\* Bits.set computes the number it writes back in the backing Num:
\*   val_mask = (1 << bits) - 1; val_shifted = (val & val_mask) << bit_offset
\*   full_num_mask = (1 << num_size) - 1
\*   num_mask = (~(val_mask << bit_offset)) & full_num_mask
\*   res_val = (num_val & num_mask) | val_shifted
\* The mutant does not clear the bits it replaces.
Bits_res_val_NoClear(field, num_val, val) ==
    LET val_mask == ShiftLeft(1, field.bits) - 1
        val_shifted == ShiftLeft(Bitwise("and", val, val_mask), field.bit_offset)
    IN  Bitwise("or", num_val, val_shifted)

Bits_res_val(field, num_val, val) ==
    LET val_mask == ShiftLeft(1, field.bits) - 1
        val_shifted == ShiftLeft(Bitwise("and", val, val_mask), field.bit_offset)
        num_size == size(field.num) * 8
        full_num_mask == ShiftLeft(1, num_size) - 1
        num_mask == Bitwise("andnot", full_num_mask,
                            ShiftLeft(val_mask, field.bit_offset))
    IN  Bitwise("or", Bitwise("and", num_val, num_mask), val_shifted)

\* Bits.get: (num_val >> bit_offset) & val_mask
Bits_get(field, mem, addr) ==
    LET val_mask == ShiftLeft(1, field.bits) - 1
        num_val == Type_get(field.num, mem, addr)
    IN  Bitwise("and", ShiftRight(num_val, field.bit_offset), val_mask)

RECURSIVE BitField_fields(_, _, _, _)
\* The loop of BitField.__init__: a Bits per (name, bits), at consecutive
\* offsets from the least significant bit.
BitField_fields(backing_num, bit_list, i, offset) ==
    IF i > Len(bit_list) THEN <<>>
    ELSE << <<bit_list[i][1], Bits(backing_num, bit_list[i][2], offset)>> >>
         \o BitField_fields(backing_num, bit_list, i + 1,
                            offset + bit_list[i][2])

\* BitField(backing_num, bit_list): a Union of Bits sharing backing_num.
BitField(backing_num, bit_list) ==
    [kind |-> "BitField", num |-> backing_num,
     field_list |-> BitField_fields(backing_num, bit_list, 1, 0)]

\* isinstance(field, Union): BitField is a subclass of Union.
IsUnion(field) == field.kind \in {"Union", "BitField"}

(***************************************************************************)
(* field.get and field.set, by class of the descriptor.                    *)
(***************************************************************************)
\* A PinnedSizedArray instance: PinnedSizedArray(vm, addr, field_type, len).
PinnedSizedArray(addr, field_type, array_len) ==
    [cls |-> "PinnedSizedArray", addr |-> addr, field_type |-> field_type,
     array_len |-> array_len]

field_get(field, mem, addr) ==
    CASE field.kind \in {"Num", "Ptr"} -> Type_get(field, mem, addr)
      [] field.kind = "Array" ->
            PinnedSizedArray(addr, field.field_type, field.array_len)
      [] field.kind = "Union" -> get_mem(mem, addr, size(field))
      [] field.kind = "Bits" -> Bits_get(field, mem, addr)
      [] field.kind = "BitField" -> Type_get(field.num, mem, addr)

\* The fields set with a number.
IsNumeric(field) == field.kind \in {"Num", "Ptr", "Bits", "BitField"}

\* The number a numeric field hands to the _pack of its Num.
field_packed_val(field, mem, addr, val) ==
    IF field.kind = "Bits"
        THEN Bits_res_val(field, Type_get(field.num, mem, addr), val)
        ELSE val

field_num(field) == IF field.kind \in {"Bits", "BitField"} THEN field.num
                                                            ELSE field

\* What field.set raises for a numeric field: the fault of the read of
\* Bits.set, struct.error of _pack, the fault of the write.
field_set_exc(field, mem, addr, val) ==
    IF field.kind = "Bits" /\ ~Mapped(addr, size(field)) THEN "VmFault"
    ELSE Type_set_exc(field_num(field), addr,
                      field_packed_val(field, mem, addr, val))

\* field.set(vm, addr, val) for a numeric field, when it raises nothing.
field_set(field, mem, addr, val) ==
    Type_set(field_num(field), mem, addr,
             field_packed_val(field, mem, addr, val))

(***************************************************************************)
(* PinnedStruct: generation of the fields of a class.                      *)
(***************************************************************************)
Put(dict, key, value) ==
    [k \in (DOMAIN dict) \cup {key} |-> IF k = key THEN value ELSE dict[k]]

RECURSIVE gen_field(_, _, _, _)
RECURSIVE gen_union_attr(_, _, _, _)
RECURSIVE gen_union_attr_Packed(_, _, _, _)
\* gen_field: _gen_simple_attr, then _gen_union_attr for a Union.
gen_field(attrs, name, field, offset) ==
    LET simple == Put(attrs, name, [field |-> field, offset |-> offset])
    IN  IF IsUnion(field) THEN gen_union_attr(simple, field.field_list, offset, 1)
                          ELSE simple

\* A mutant of _gen_union_attr: the members one after the other, as the
\* fields of a struct.
gen_union_attr_Packed(attrs, field_list, offset, i) ==
    IF i > Len(field_list) THEN attrs
    ELSE gen_union_attr_Packed(
            gen_field(attrs, field_list[i][1], field_list[i][2], offset),
            field_list, offset + size(field_list[i][2]), i + 1)

\* _gen_union_attr: every member of the union, at the union's offset.
gen_union_attr(attrs, field_list, offset, i) ==
    IF i > Len(field_list) THEN attrs
    ELSE gen_union_attr(
            gen_field(attrs, field_list[i][1], field_list[i][2], offset),
            field_list, offset, i + 1)

RECURSIVE gen_fields_loop(_, _, _, _)
\* The loop of gen_fields.
gen_fields_loop(cls_fields, i, attrs, offset) ==
    IF i > Len(cls_fields) THEN [attrs |-> attrs, size |-> offset]
    ELSE gen_fields_loop(
            cls_fields, i + 1,
            gen_field(attrs, cls_fields[i][1], cls_fields[i][2], offset),
            offset + size(cls_fields[i][2]))

\* cls.gen_fields(fields): the loop runs over cls.fields, whatever the
\* argument is; the result is (cls._attrs, cls._size).
gen_fields(cls_fields, fields_arg) == gen_fields_loop(cls_fields, 1, <<>>, 0)

RECURSIVE SumSizes(_, _)
\* sum(a["field"].size() for a in attrs.itervalues()), over the names left.
SumSizes(attrs, names) ==
    IF names = {} THEN 0
    ELSE LET n == CHOOSE x \in names : TRUE
         IN  size(attrs[n].field) + SumSizes(attrs, names \ {n})

\* A mutant of sizeof: the sum over the field directory.
PinnedStruct_sizeof_SumAttrs(cls) == SumSizes(_attrs[cls], DOMAIN _attrs[cls])

\* PinnedStruct.sizeof
PinnedStruct_sizeof(cls) ==
    IF _size[cls] = NoSize THEN SumSizes(_attrs[cls], DOMAIN _attrs[cls])
                         ELSE _size[cls]

(***************************************************************************)
(* PinnedStruct instances.  A view is [cls, addr].                         *)
(***************************************************************************)
View(cls, addr) == [cls |-> cls, addr |-> addr]

HasField(view, name) == name \in DOMAIN _attrs[view.cls]

\* self.get_addr(field_name)
get_addr(view, name) ==
    view.addr + (IF name = None THEN 0 ELSE _attrs[view.cls][name].offset)

get_field_type(view, name) == _attrs[view.cls][name].field

\* self.get_field(name)
get_field(mem, view, name) ==
    field_get(_attrs[view.cls][name].field, mem,
              get_addr(view, None) + _attrs[view.cls][name].offset)

\* The address set_field hands to field.set, with a mutant that forgets the
\* offset of the field.
set_field_addr_NoOffset(view, name) == get_addr(view, None)

set_field_addr(view, name) ==
    get_addr(view, None) + _attrs[view.cls][name].offset

\* self.set_field(name, val), for a numeric field: what it raises, and the
\* memory after it.
set_field_exc(mem, view, name, val) ==
    field_set_exc(_attrs[view.cls][name].field, mem,
                  set_field_addr(view, name), val)

set_field(mem, view, name, val) ==
    field_set(_attrs[view.cls][name].field, mem,
              set_field_addr(view, name), val)

\* view.raw(): the get_size() bytes at get_addr().
raw(mem, view) == get_mem(mem, view.addr, PinnedStruct_sizeof(view.cls))

\* The classes of a list of (name, fields) declarations, as the metaclass
\* leaves them: _MetaPinnedStruct.__init__ calls cls.gen_fields().
Declared(decls) ==
    LET names == {decls[i][1] : i \in 1..Len(decls)}
        of(n) == (CHOOSE i \in 1..Len(decls) : decls[i][1] = n)
    IN  /\ fields = [n \in names |-> decls[of(n)][2]]
        /\ _attrs = [n \in names |->
                        gen_fields(decls[of(n)][2], None).attrs]
        /\ _size = [n \in names |-> gen_fields(decls[of(n)][2], None).size]

(***************************************************************************)
(* Initial values of the variable groups.                                  *)
(***************************************************************************)
NoCall == [op |-> "none", exc |-> None]

NoClasses == fields = <<>> /\ _attrs = <<>> /\ _size = <<>>
NoSelf    == _self_type = <<>> /\ _dst_type = <<>>
NoCache   == DYN_MEM_STRUCT_CACHE = {} /\ ntypes = 0
NoAlloc   == ALLOCATOR = None /\ alloc_calls = <<>>

(***************************************************************************)
(* SpecNum: Num and Ptr descriptors used directly, set and get of a number *)
(* at an address.                                                          *)
(***************************************************************************)
NumFields == {Num(f) : f \in Formats} \cup {Ptr("<I", "PinnedVoid")}

NumVals == {0, 255, 4660, 65535, 305419896}

NumAddrs == {0, 1, MemSize - 1}

InitNum ==
    /\ vm \in {ZeroMem, [a \in 0..(MemSize - 1) |-> 90]}
    /\ last = NoCall /\ hist = <<>> /\ nops = 0 /\ views = {}
    /\ NoClasses /\ NoSelf /\ NoCache /\ NoAlloc

\* field.set(vm, addr, val)
NumSet(field, addr, val) ==
    /\ nops < MaxNumOps
    /\ nops' = nops + 1
    /\ LET exc == Type_set_exc(field, addr, val) IN
        /\ vm' = IF exc = None THEN Type_set(field, vm, addr, val) ELSE vm
        /\ last' = [op |-> "set", field |-> field, addr |-> addr,
                    val |-> val, exc |-> exc]
    /\ UNCHANGED <<hist, views, classVars, selfVars, cacheVars, allocVars>>

NextNum == \E field \in NumFields, addr \in NumAddrs, val \in NumVals :
              NumSet(field, addr, val)

SpecNum == InitNum /\ [][NextNum]_vars

\* C4: after set(vm, a, v) of a Num or Ptr of width w with an explicit byte
\* order, get(vm, a) returns v and the w bytes at a are the encoding of v in
\* that order: byte k (from the least significant end) is (v >> 8k) mod 256.
C4_NumRoundTrip ==
    (last.op = "set" /\ last.exc = None /\ last.field.fmt # "B") =>
        LET w == size(last.field) IN
        /\ Type_get(last.field, vm, last.addr) = last.val
        /\ \A k \in 0..(w - 1) :
              vm[last.addr + (IF BigEndian(last.field.fmt) THEN w - 1 - k
                                                             ELSE k)]
                 = (last.val \div Pow2(8 * k)) % 256

C4_Witness ==
    /\ last.op = "set" /\ last.exc = None
    /\ last.field = Num(">H") /\ last.val = 4660 /\ last.addr = 1
    /\ vm[1] = 18 /\ vm[2] = 52
    /\ nops = 2

(***************************************************************************)
(* SpecCast: the DataArray and DataStr classes of the example, views of    *)
(* both on the same memory, created directly or by cast.                   *)
(***************************************************************************)
DataArray_fields ==
    << <<"val1", Num("B")>>,
       <<"val2", Num("B")>>,
       <<"arrayptr", Ptr("<I", "PinnedSizedArray")>>,
       <<"array", Array(Num("B"), 16)>> >>

DataStr_fields ==
    << <<"valshort", Num("<H")>>,
       <<"data", Ptr("<I", "PinnedStr")>> >>

CastClasses == {"DataArray", "DataStr"}

CastAddrs == {0, 1}

CastVals == {18, 52, 4386, 4660}

\* The structures of the example are not initialized: the memory holds
\* some bytes left there.
InitCast ==
    /\ vm = [a \in 0..(MemSize - 1) |-> 90]
    /\ last = NoCall /\ hist = <<>> /\ nops = 0 /\ views = {}
    /\ Declared(<< <<"DataArray", DataArray_fields>>,
                   <<"DataStr", DataStr_fields>> >>)
    /\ NoSelf /\ NoCache /\ NoAlloc

\* cls(vm, addr): PinnedType.__init__ with an address.
CastConstruct(cls, addr) ==
    /\ View(cls, addr) \notin views
    /\ views' = views \cup {View(cls, addr)}
    /\ last' = [op |-> "construct", view |-> View(cls, addr), exc |-> None]
    /\ UNCHANGED <<vm, hist, nops, classVars, selfVars, cacheVars, allocVars>>

\* view.cast(other_type): other_type(self._vm, self.get_addr())
cast(view, other_type) == View(other_type, get_addr(view, None))

CastCast(view, other_type) ==
    /\ cast(view, other_type) \notin views
    /\ views' = views \cup {cast(view, other_type)}
    /\ last' = [op |-> "cast", view |-> cast(view, other_type), exc |-> None]
    /\ UNCHANGED <<vm, hist, nops, classVars, selfVars, cacheVars, allocVars>>

\* view.<name> = val, for a numeric field of the view's class.
CastSetField(view, name, val) ==
    /\ nops < MaxCastOps
    /\ HasField(view, name) /\ IsNumeric(get_field_type(view, name))
    /\ nops' = nops + 1
    /\ LET exc == set_field_exc(vm, view, name, val) IN
        /\ vm' = IF exc = None THEN set_field(vm, view, name, val) ELSE vm
        /\ last' = [op |-> "set_field", view |-> view, name |-> name,
                    val |-> val, exc |-> exc]
    /\ UNCHANGED <<hist, views, classVars, selfVars, cacheVars, allocVars>>

NextCast ==
    \/ \E cls \in CastClasses, addr \in CastAddrs : CastConstruct(cls, addr)
    \/ \E view \in views, cls \in CastClasses : CastCast(view, cls)
    \/ \E view \in views, val \in CastVals :
          \E name \in DOMAIN _attrs[view.cls] : CastSetField(view, name, val)

SpecCast == InitCast /\ [][NextCast]_vars

\* C1: two views of different layouts on the same address read the bytes
\* currently in memory: DataStr.valshort is val1 + 256 * val2 of DataArray,
\* DataStr.data is DataArray.arrayptr, and the field assigned last reads
\* back, through its view, as the value assigned.
C1_AliasedViews ==
    /\ \A v \in views, w \in views :
          (v.cls = "DataArray" /\ w.cls = "DataStr" /\ v.addr = w.addr) =>
              /\ get_field(vm, w, "valshort")
                    = get_field(vm, v, "val1") + 256 * get_field(vm, v, "val2")
              /\ get_field(vm, w, "data") = get_field(vm, v, "arrayptr")
    /\ (last.op = "set_field" /\ last.exc = None) =>
          get_field(vm, last.view, last.name) = last.val

C1_Witness ==
    /\ last.op = "set_field" /\ last.exc = None
    /\ last.view.cls = "DataStr" /\ last.name = "valshort" /\ last.val = 4386
    /\ \E v \in views :
          /\ v.cls = "DataArray" /\ v.addr = last.view.addr
          /\ get_field(vm, v, "val1") = 34 /\ get_field(vm, v, "val2") = 17

(***************************************************************************)
(* SpecLayout: a struct class S declared with any list of at most          *)
(* MaxFields fields, an instance of it, and assignments to the members of  *)
(* its unions.                                                             *)
(***************************************************************************)
Digit == <<"1", "2", "3", "4", "5", "6">>

\* The field declared at position i, by kind: a byte, a pointer, an array,
\* the Union of the class documentation, a Union holding a Union.
LayoutKinds == {"B", "P", "A", "U", "N"}

LayoutField(kind, i) ==
    CASE kind = "B" -> Num("B")
      [] kind = "P" -> Ptr("<I", "PinnedVoid")
      [] kind = "A" -> Array(Num("<H"), 2)
      [] kind = "U" -> Union(<< <<"u" \o Digit[i] \o "_f1", Num("<B")>>,
                                <<"u" \o Digit[i] \o "_f2", Num("<H")>> >>)
      [] kind = "N" ->
            Union(<< <<"n" \o Digit[i] \o "_h", Num("<H")>>,
                     <<"n" \o Digit[i] \o "_u",
                       Union(<< <<"n" \o Digit[i] \o "_b", Num("<B")>>,
                                <<"n" \o Digit[i] \o "_i", Num("<I")>> >>)>> >>)

LayoutFields(kinds) ==
    [i \in 1..Len(kinds) |-> <<"f" \o Digit[i], LayoutField(kinds[i], i)>>]

LayoutFieldLists ==
    {LayoutFields(kinds) :
        kinds \in UNION {[1..n -> LayoutKinds] : n \in 0..MaxFields}}

LayoutAddrs == {0, 1}

LayoutVals == {86, 4660}

InitLayout ==
    /\ vm = ZeroMem
    /\ last = NoCall /\ hist = <<>> /\ nops = 0 /\ views = {}
    /\ NoClasses /\ NoSelf /\ NoCache /\ NoAlloc

\* class S(PinnedStruct): fields = field_list
\* The metaclass calls S.gen_fields().
LayoutDeclare(field_list) ==
    /\ "S" \notin DOMAIN fields
    /\ fields' = Put(fields, "S", field_list)
    /\ _attrs' = Put(_attrs, "S", gen_fields(field_list, None).attrs)
    /\ _size' = Put(_size, "S", gen_fields(field_list, None).size)
    /\ last' = [op |-> "declare", exc |-> None]
    /\ UNCHANGED <<vm, hist, nops, views, selfVars, cacheVars, allocVars>>

\* S(vm, addr)
LayoutConstruct(addr) ==
    /\ "S" \in DOMAIN fields
    /\ views = {}
    /\ views' = {View("S", addr)}
    /\ last' = [op |-> "construct", view |-> View("S", addr), exc |-> None]
    /\ UNCHANGED <<vm, hist, nops, classVars, selfVars, cacheVars, allocVars>>

RECURSIVE PromotedNames(_)
\* The names a Union promotes into the directory of its struct.
PromotedNames(union) ==
    UNION {{union.field_list[i][1]}
             \cup (IF IsUnion(union.field_list[i][2])
                     THEN PromotedNames(union.field_list[i][2]) ELSE {})
           : i \in 1..Len(union.field_list)}

UnionMemberNames(cls) ==
    UNION {PromotedNames(fields[cls][i][2]) :
              i \in {j \in 1..Len(fields[cls]) : IsUnion(fields[cls][j][2])}}

\* view.<name> = val, for a numeric member of a union of S.
LayoutSetField(view, name, val) ==
    /\ nops < MaxLayoutOps
    /\ name \in UnionMemberNames(view.cls)
    /\ IsNumeric(get_field_type(view, name))
    /\ nops' = nops + 1
    /\ LET exc == set_field_exc(vm, view, name, val) IN
        /\ vm' = IF exc = None THEN set_field(vm, view, name, val) ELSE vm
        /\ last' = [op |-> "set_field", view |-> view, name |-> name,
                    val |-> val, exc |-> exc]
    /\ UNCHANGED <<hist, views, classVars, selfVars, cacheVars, allocVars>>

NextLayout ==
    \/ \E field_list \in LayoutFieldLists : LayoutDeclare(field_list)
    \/ \E addr \in LayoutAddrs : LayoutConstruct(addr)
    \/ \E view \in views, val \in LayoutVals :
          \E name \in DOMAIN _attrs[view.cls] : LayoutSetField(view, name, val)

SpecLayout == InitLayout /\ [][NextLayout]_vars

RECURSIVE PrefixSize(_, _)
\* The sum of the sizes of the first n fields of a field list.
PrefixSize(field_list, n) ==
    IF n = 0 THEN 0
    ELSE PrefixSize(field_list, n - 1) + size(field_list[n][2])

\* C2: after field generation the offset of each top-level field is the sum
\* of the sizes of the fields declared before it, get_addr(name) is the view
\* address plus that offset, and sizeof() is the sum of the top-level field
\* sizes, a Union counting once, for the size of its largest member, with
\* its members in the field directory.
C2_PackedLayout ==
    "S" \in DOMAIN fields =>
        LET fl == fields["S"] IN
        /\ \A i \in 1..Len(fl) :
              /\ _attrs["S"][fl[i][1]].offset = PrefixSize(fl, i - 1)
              /\ _attrs["S"][fl[i][1]].field = fl[i][2]
              /\ \A v \in views :
                    get_addr(v, fl[i][1]) = v.addr + PrefixSize(fl, i - 1)
              /\ IsUnion(fl[i][2]) =>
                    /\ PromotedNames(fl[i][2]) \subseteq DOMAIN _attrs["S"]
                    /\ size(fl[i][2])
                          = Max({size(_attrs["S"][m].field) :
                                    m \in PromotedNames(fl[i][2])})
        /\ PinnedStruct_sizeof("S") = PrefixSize(fl, Len(fl))

C2_Witness ==
    /\ "S" \in DOMAIN fields
    /\ fields["S"] = LayoutFields(<<"B", "U", "P">>)
    /\ _attrs["S"]["f3"].offset = 3
    /\ "u2_f2" \in DOMAIN _attrs["S"]
    /\ PinnedStruct_sizeof("S") = 7
    /\ \E v \in views : get_addr(v, "f3") = 4

\* C3: every member a Union promotes has the offset, hence the address, of
\* the Union; the Union has the size of its largest member; after a write
\* through a member, any other little-endian member reads the overlapping
\* bytes just written and the Union itself reads them raw.
C3_UnionAliasing ==
    "S" \in DOMAIN fields =>
        LET fl == fields["S"] IN
        \A i \in 1..Len(fl) : IsUnion(fl[i][2]) =>
            LET u == fl[i][1]
                members == PromotedNames(fl[i][2])
            IN
            /\ \A m \in members :
                  /\ _attrs["S"][m].offset = _attrs["S"][u].offset
                  /\ \A v \in views : get_addr(v, m) = get_addr(v, u)
            /\ size(fl[i][2])
                  = Max({size(fl[i][2].field_list[k][2]) :
                            k \in 1..Len(fl[i][2].field_list)})
            /\ (last.op = "set_field" /\ last.exc = None
                /\ last.name \in members) =>
                  LET written == size(get_field_type(last.view, last.name))
                  IN
                  /\ \A m \in members :
                        IsNumeric(get_field_type(last.view, m)) =>
                           LET n == IF size(get_field_type(last.view, m)) < written
                                      THEN size(get_field_type(last.view, m))
                                      ELSE written
                           IN \A k \in 0..(n - 1) :
                                (get_field(vm, last.view, m) \div Pow2(8 * k)) % 256
                                   = (last.val \div Pow2(8 * k)) % 256
                  /\ SubSeq(get_field(vm, last.view, u), 1, written)
                        = [k \in 1..written |->
                              (last.val \div Pow2(8 * (k - 1))) % 256]

C3_Witness ==
    /\ "S" \in DOMAIN fields
    /\ fields["S"] = LayoutFields(<<"B", "U">>)
    /\ last.op = "set_field" /\ last.exc = None
    /\ last.name = "u2_f2" /\ last.val = 4660
    /\ get_addr(last.view, "u2_f1") = get_addr(last.view, "u2_f2")
    /\ get_field(vm, last.view, "u2_f1") = 52
    /\ get_field(vm, last.view, "f2") = <<52, 18>>

(***************************************************************************)
(* SpecBits: the Example class of the BitField documentation, over several *)
(* backing numbers and bit lists.                                          *)
(***************************************************************************)
BitFieldChoices ==
    { BitField(Num("B"), << <<"f1", 2>>, <<"f2", 4>>, <<"f3", 1>> >>),
      BitField(Num("<H"), << <<"f1", 3>>, <<"f2", 8>>, <<"f3", 5>> >>),
      BitField(Num(">H"), << <<"f1", 7>>, <<"f2", 4>>, <<"f3", 2>> >>) }

BitsAddr == 1

BitsNames == {"f1", "f2", "f3", "bf"}

BitsVals == {2, 5, 255}

InitBits ==
    /\ vm = [a \in 0..(MemSize - 1) |-> 90]
    /\ last = NoCall /\ hist = <<>> /\ nops = 0
    /\ views = {View("Example", BitsAddr)}
    /\ \E bf \in BitFieldChoices :
          Declared(<< <<"Example", << <<"bf", bf>> >> >> >>)
    /\ NoSelf /\ NoCache /\ NoAlloc

\* view.memset(byte): vm.set_mem(get_addr(), byte * get_size())
memset(mem, view, byte) ==
    set_mem(mem, get_addr(view, None),
            [k \in 1..PinnedStruct_sizeof(view.cls) |-> byte])

BitsMemset(view, byte) ==
    /\ Len(hist) < MaxBitOps
    /\ vm' = memset(vm, view, byte)
    /\ last' = [op |-> "memset", view |-> view, byte |-> byte, exc |-> None]
    /\ hist' = Append(hist, last')
    /\ UNCHANGED <<nops, views, classVars, selfVars, cacheVars, allocVars>>

\* view.<name> = val, for a bit field or for the whole BitField.
BitsSetField(view, name, val) ==
    /\ Len(hist) < MaxBitOps
    /\ LET exc == set_field_exc(vm, view, name, val) IN
        /\ vm' = IF exc = None THEN set_field(vm, view, name, val) ELSE vm
        /\ last' = [op |-> "set_field", view |-> view, name |-> name,
                    val |-> val, exc |-> exc]
    /\ hist' = Append(hist, last')
    /\ UNCHANGED <<nops, views, classVars, selfVars, cacheVars, allocVars>>

NextBits ==
    \/ \E view \in views : BitsMemset(view, 0)
    \/ \E view \in views, name \in BitsNames, val \in BitsVals :
          BitsSetField(view, name, val)

SpecBits == InitBits /\ [][NextBits]_vars

\* Reading a bit field returns (backing >> off) mod 2^n.
C10_Read ==
    \A view \in views, name \in BitsNames \ {"bf"} :
        LET f == get_field_type(view, name) IN
        get_field(vm, view, name)
           = (get_field(vm, view, "bf") \div Pow2(f.bit_offset)) % Pow2(f.bits)

\* Writing v to a bit field stores v mod 2^n in bits [off, off+n) of the
\* backing number and changes no other bit, and no byte outside of it.
C10_Write ==
    (last'.op = "set_field" /\ last'.exc = None /\ last'.name # "bf") =>
        LET f == get_field_type(last'.view, last'.name)
            before == get_field(vm, last'.view, "bf")
            after == get_field(vm', last'.view, "bf")
            base == get_addr(last'.view, "bf")
        IN
        /\ after = before
                    - ((before \div Pow2(f.bit_offset)) % Pow2(f.bits))
                         * Pow2(f.bit_offset)
                    + (last'.val % Pow2(f.bits)) * Pow2(f.bit_offset)
        /\ \A a \in DOMAIN vm :
              (a < base \/ a >= base + size(f)) => vm'[a] = vm[a]

MyStruct_fields ==
    << <<"num", Num("<I")>>,
       <<"flags", Num("B")>>,
       <<"other", Ptr("<I", "OtherStruct")>> >>

OtherStruct_fields == << <<"foo", Num("<H")>> >>

ThirdStruct_fields == << <<"a", Num("B")>>, <<"b", Num("<H")>> >>

MyView == View("MyStruct", 0)

\* The views that exist besides MyView.
PtrTargets ==
    {View("OtherStruct", 10), View("OtherStruct", 14), View("ThirdStruct", 17)}

\* Values given to the pointer: null, an address inside MyStruct itself, the
\* addresses of the views, the last mapped address.
PtrVals == {0, 6, MemSize - 1} \cup {v.addr : v \in PtrTargets}

FooVals == {4660, 65535}

InitPtr ==
    /\ vm = [a \in 0..(MemSize - 1) |-> 90]
    /\ last = NoCall /\ hist = <<>> /\ nops = 0
    /\ views = {MyView} \cup PtrTargets
    /\ Declared(<< <<"MyStruct", MyStruct_fields>>,
                   <<"OtherStruct", OtherStruct_fields>>,
                   <<"ThirdStruct", ThirdStruct_fields>> >>)
    /\ NoSelf /\ NoCache /\ NoAlloc

\* Ptr.deref_get(vm, addr): self.dst_type(vm, addr, ...)
Ptr_deref_get(field, addr) == View(field.dst, addr)

\* self.deref_field(name): addr = self.get_field(name), then deref_get.
deref_field(mem, view, name) ==
    Ptr_deref_get(get_field_type(view, name), get_field(mem, view, name))

\* The address set_deref_field hands to deref_set, with a mutant that takes
\* the address of the pointer field for it.
deref_set_addr_OfField(mem, view, name) == get_addr(view, name)

deref_set_addr(mem, view, name) == get_field(mem, view, name)

\* Ptr.deref_set warns when the class of the value is not dst_type.
deref_set_warns(field, val) == field.dst # val.cls

\* self.set_deref_field(name, val): vm.set_mem(addr, str(val)); what it
\* raises and the memory after it.
set_deref_field_exc(mem, view, name, val) ==
    IF Mapped(deref_set_addr(mem, view, name), Len(raw(mem, val)))
        THEN None ELSE "VmFault"

set_deref_field(mem, view, name, val) ==
    set_mem(mem, deref_set_addr(mem, view, name), raw(mem, val))

\* mstruct.other = val
PtrAssign(val) ==
    /\ nops < MaxPtrOps /\ nops' = nops + 1
    /\ vm' = set_field(vm, MyView, "other", val)
    /\ last' = [op |-> "set_field", view |-> MyView, name |-> "other",
                val |-> val, exc |-> None]
    /\ UNCHANGED <<hist, views, classVars, selfVars, cacheVars, allocVars>>

\* other.foo = val
PtrSetFoo(view, val) ==
    /\ nops < MaxPtrOps /\ nops' = nops + 1
    /\ view.cls = "OtherStruct"
    /\ vm' = set_field(vm, view, "foo", val)
    /\ last' = [op |-> "set_field", view |-> view, name |-> "foo",
                val |-> val, exc |-> None]
    /\ UNCHANGED <<hist, views, classVars, selfVars, cacheVars, allocVars>>

\* mstruct.deref_other
PtrDerefGet ==
    /\ nops < MaxPtrOps /\ nops' = nops + 1
    /\ last' = [op |-> "deref_get", ret |-> deref_field(vm, MyView, "other"),
                exc |-> None]
    /\ UNCHANGED <<vm, hist, views, classVars, selfVars, cacheVars, allocVars>>

\* mstruct.deref_other = val
PtrDerefSet(val) ==
    /\ nops < MaxPtrOps /\ nops' = nops + 1
    /\ LET exc == set_deref_field_exc(vm, MyView, "other", val) IN
        /\ vm' = IF exc = None THEN set_deref_field(vm, MyView, "other", val)
                               ELSE vm
        /\ last' = [op |-> "deref_set", val |-> val, exc |-> exc,
                    warned |-> deref_set_warns(
                                   get_field_type(MyView, "other"), val)]
    /\ UNCHANGED <<hist, views, classVars, selfVars, cacheVars, allocVars>>

NextPtr ==
    \/ \E val \in PtrVals : PtrAssign(val)
    \/ \E view \in views, val \in FooVals : PtrSetFoo(view, val)
    \/ PtrDerefGet
    \/ \E val \in views : PtrDerefSet(val)

SpecPtr == InitPtr /\ [][NextPtr]_vars

\* Reading the dereference returns a view of the target type at the address
\* the pointer field holds.
C5_DerefRead ==
    (last.op = "deref_get") =>
        /\ last.ret.cls = "OtherStruct"
        /\ last.ret.addr = get_field(vm, MyView, "other")

\* Assigning a view to the dereference writes the raw bytes of the view at
\* the address the pointer field holds, whatever the class of the view (a
\* warning is all a different class gives), and changes no other byte: the
\* pointer keeps its value when the bytes written do not overlap it.
C5_DerefWrite ==
    (last'.op = "deref_set" /\ last'.exc = None) =>
        LET p == get_field(vm, MyView, "other")
            bytes == raw(vm, last'.val)
            own == get_addr(MyView, "other")
        IN
        /\ \A a \in DOMAIN vm :
              vm'[a] = IF a >= p /\ a < p + Len(bytes) THEN bytes[a - p + 1]
                                                       ELSE vm[a]
        /\ last'.warned = (last'.val.cls # "OtherStruct")
        /\ (p + Len(bytes) <= own \/ p >= own + 4) =>
              get_field(vm', MyView, "other") = p

\* C5: deref-level pointer operations act at the address currently stored
\* in the pointer field.
C5_Deref == [][C5_DerefWrite]_vars /\ []C5_DerefRead

C5_Witness ==
    /\ last.op = "deref_set" /\ last.exc = None /\ last.warned
    /\ last.val = MyView
    /\ get_field(vm, MyView, "other") = 10
    /\ get_mem(vm, 10, 9) = raw(vm, MyView)
    /\ vm[15] = 10 /\ vm[19] = 90

(***************************************************************************)
(* The cache of generated types.  A key is the descriptor handed to pin,   *)
(* or the tuple (field_type, array_len) of the array type generators, with *)
(* array_len None for mem_array_type.  A dict finds a key with __hash__    *)
(* and __eq__ of the descriptors, which compare the class and the          *)
(* attributes.  A generated type is named by its rank of creation.         *)
(***************************************************************************)
RECURSIVE Type_eq(_, _)
RECURSIVE field_list_eq(_, _)
\* __eq__ of the descriptor classes.
Type_eq(a, b) ==
    /\ a.kind = b.kind
    /\ CASE a.kind = "Num" -> a.fmt = b.fmt
         [] a.kind = "Ptr" -> a.fmt = b.fmt /\ a.dst = b.dst
         [] a.kind = "Array" ->
               Type_eq(a.field_type, b.field_type) /\ a.array_len = b.array_len
         [] a.kind = "Union" -> field_list_eq(a.field_list, b.field_list)
         [] a.kind = "Bits" ->
               Type_eq(a.num, b.num) /\ a.bits = b.bits
                  /\ a.bit_offset = b.bit_offset
         [] a.kind = "BitField" ->
               Type_eq(a.num, b.num) /\ field_list_eq(a.field_list, b.field_list)

\* == of two lists of (name, field).
field_list_eq(l1, l2) ==
    /\ Len(l1) = Len(l2)
    /\ \A i \in 1..Len(l1) : l1[i][1] = l2[i][1] /\ Type_eq(l1[i][2], l2[i][2])

PinKey(field) == [tuple |-> FALSE, field |-> field]

\* array_len=None, as in the key (field_type, None) of mem_array_type.
NoLen == -1

ArrayKey(field_type, array_len) ==
    [tuple |-> TRUE, field |-> field_type, array_len |-> array_len]

\* == of two keys: a descriptor never equals a tuple.
key_eq(k1, k2) ==
    /\ k1.tuple = k2.tuple
    /\ Type_eq(k1.field, k2.field)
    /\ k1.tuple => k1.array_len = k2.array_len

\* key in DYN_MEM_STRUCT_CACHE
in_cache(cache, key) == \E e \in cache : key_eq(e.key, key)

\* DYN_MEM_STRUCT_CACHE[key]
cache_get(cache, key) == (CHOOSE e \in cache : key_eq(e.key, key)).type

\* DYN_MEM_STRUCT_CACHE[key] = type: the entry of an equal key is replaced.
cache_put(cache, key, type) ==
    {e \in cache : ~key_eq(e.key, key)} \cup {[key |-> key, type |-> type]}

\* The type that type(name, bases, dict) creates when n were created before.
NewType(n) == "Dyn" \o Digit[n + 1]

\* The three generators share one shape: return the cached type of the key
\* if there is one, else create a type and cache it.  The result is the type
\* returned, the cache and the number of types created.  The mutant of pin
\* skips the lookup.
pin_NoLookup(cache, n, field) ==
    [type |-> NewType(n), cache |-> cache_put(cache, PinKey(field), NewType(n)),
     ntypes |-> n + 1]

pin(cache, n, field) ==
    IF in_cache(cache, PinKey(field))
        THEN [type |-> cache_get(cache, PinKey(field)), cache |-> cache,
              ntypes |-> n]
        ELSE [type |-> NewType(n),
              cache |-> cache_put(cache, PinKey(field), NewType(n)),
              ntypes |-> n + 1]

mem_array_type(cache, n, field_type) ==
    LET cache_key == ArrayKey(field_type, NoLen) IN
    IF in_cache(cache, cache_key)
        THEN [type |-> cache_get(cache, cache_key), cache |-> cache,
              ntypes |-> n]
        ELSE [type |-> NewType(n),
              cache |-> cache_put(cache, cache_key, NewType(n)),
              ntypes |-> n + 1]

mem_sized_array_type(cache, n, field_type, array_len) ==
    LET cache_key == ArrayKey(field_type, array_len) IN
    IF in_cache(cache, cache_key)
        THEN [type |-> cache_get(cache, cache_key), cache |-> cache,
              ntypes |-> n]
        ELSE [type |-> NewType(n),
              cache |-> cache_put(cache, cache_key, NewType(n)),
              ntypes |-> n + 1]

(***************************************************************************)
(* SpecCache: calls of pin, mem_array_type and mem_sized_array_type with   *)
(* descriptors that are equal or not.                                      *)
(***************************************************************************)
CacheFields ==
    {Num("<I"), Num("B"), Ptr("<I", "PinnedVoid"), Array(Num("B"), 2)}

CacheEltTypes == {Num("<I"), Num("B")}

InitCache ==
    /\ vm = ZeroMem
    /\ last = NoCall /\ hist = <<>> /\ nops = 0 /\ views = {}
    /\ NoClasses /\ NoSelf /\ NoCache /\ NoAlloc

\* What a call leaves: the cache, the count of types, the call in hist.
CacheCall(op, key, res) ==
    /\ Len(hist) < MaxCacheCalls
    /\ DYN_MEM_STRUCT_CACHE' = res.cache
    /\ ntypes' = res.ntypes
    /\ last' = [op |-> op, key |-> key, ret |-> res.type, exc |-> None]
    /\ hist' = Append(hist, last')

\* pin(field): a new type is a PinnedStruct with the one field "value",
\* whose fields the metaclass generates.
CachePin(field) ==
    LET res == pin(DYN_MEM_STRUCT_CACHE, ntypes, field)
        value == << <<"value", field>> >>
    IN
    /\ CacheCall("pin", PinKey(field), res)
    /\ IF res.ntypes # ntypes
          THEN /\ fields' = Put(fields, res.type, value)
               /\ _attrs' = Put(_attrs, res.type, gen_fields(value, None).attrs)
               /\ _size' = Put(_size, res.type, gen_fields(value, None).size)
          ELSE UNCHANGED classVars
    /\ UNCHANGED <<vm, nops, views, selfVars, allocVars>>

CacheMemArrayType(field_type) ==
    /\ CacheCall("mem_array_type", ArrayKey(field_type, NoLen),
                 mem_array_type(DYN_MEM_STRUCT_CACHE, ntypes, field_type))
    /\ UNCHANGED <<vm, nops, views, classVars, selfVars, allocVars>>

CacheMemSizedArrayType(field_type, array_len) ==
    /\ CacheCall("mem_sized_array_type", ArrayKey(field_type, array_len),
                 mem_sized_array_type(DYN_MEM_STRUCT_CACHE, ntypes, field_type,
                                      array_len))
    /\ UNCHANGED <<vm, nops, views, classVars, selfVars, allocVars>>

NextCache ==
    \/ \E field \in CacheFields : CachePin(field)
    \/ \E field_type \in CacheEltTypes : CacheMemArrayType(field_type)
    \/ \E field_type \in CacheEltTypes, array_len \in 1..MaxArrayLen :
          CacheMemSizedArrayType(field_type, array_len)

SpecCache == InitCache /\ [][NextCache]_vars

\* Two calls with equal keys returned the same type, two calls with
\* different keys different types, and the cache holds one entry per key.
C8_OneTypePerKey ==
    /\ \A i \in 1..Len(hist), j \in 1..Len(hist) :
          key_eq(hist[i].key, hist[j].key) <=> hist[i].ret = hist[j].ret
    /\ \A e1 \in DYN_MEM_STRUCT_CACHE, e2 \in DYN_MEM_STRUCT_CACHE :
          key_eq(e1.key, e2.key) => e1 = e2
    /\ \A i \in 1..Len(hist) :
          [key |-> hist[i].key, type |-> hist[i].ret] \in DYN_MEM_STRUCT_CACHE

\* No call removes or replaces an entry of the cache.
C8_NoEviction == DYN_MEM_STRUCT_CACHE \subseteq DYN_MEM_STRUCT_CACHE'

\* C8: calls of pin, mem_array_type and mem_sized_array_type with keys equal
\* by value return the identical type; the cache holds at most one entry per
\* key and no entry is ever removed or replaced.
C8_CacheIdentity == [][C8_NoEviction]_vars /\ []C8_OneTypePerKey

C8_Witness ==
    /\ Len(hist) = 3
    /\ hist[1].op = "pin" /\ hist[2].op = "mem_sized_array_type"
    /\ hist[3].op = "pin" /\ hist[3].key = hist[1].key
    /\ hist[3].ret = hist[1].ret /\ hist[2].ret # hist[1].ret
    /\ Cardinality(DYN_MEM_STRUCT_CACHE) = 2 /\ ntypes = 2

(***************************************************************************)
(* The self type of the descriptors.  A descriptor is an object here: a    *)
(* class that lists it in its fields, and every class that lists the same  *)
(* object, calls _set_self_type on it.  The objects are                    *)
(*   p   = Ptr("<I", PinnedSelf)                                           *)
(*   a   = Array(ae, 2)   with ae = Ptr("<I", PinnedSelf)                  *)
(*   q   = Ptr("<I", qi)  with qi = Ptr("<I", PinnedSelf)                  *)
(* _self_type[o] is o._self_type and _dst_type[o] is o._dst_type: the      *)
(* marker PinnedSelf, a Type instance (the name of the object) or the name *)
(* of a class.                                                             *)
(***************************************************************************)
PinnedSelf == "PinnedSelf"

TopObjs == {"p", "a", "q"}

Objs == {"p", "a", "ae", "q", "qi"}

PtrObjs == {"p", "ae", "q", "qi"}

\* The descriptor as a value, for the layout of the class.
ObjDesc(o) ==
    CASE o = "a" -> Array(Ptr("<I", PinnedSelf), 2)
      [] o = "q" -> Ptr("<I", "Ptr")
      [] OTHER   -> Ptr("<I", PinnedSelf)

\* Ptr.__init__: _dst_type is the argument, and a Type instance given as
\* dst_type has its _get_self_type replaced by the one of the pointer.
InitDstType == [o \in PtrObjs |-> IF o = "q" THEN "qi" ELSE PinnedSelf]

\* The object whose _self_type o._get_self_type() returns.
get_self_type_of(o) == IF o = "qi" THEN "q" ELSE o

\* field._set_self_type(self_type): an Array hands it to its field_type.
set_self_type(st, o, self_type) ==
    IF o = "a" THEN [st EXCEPT !["a"] = self_type, !["ae"] = self_type]
               ELSE [st EXCEPT ![o] = self_type]

RECURSIVE gen_fields_self(_, _, _, _)
\* The loop of gen_fields again, for field._set_self_type(cls).
gen_fields_self(st, cls_fields, i, cls) ==
    IF i > Len(cls_fields) THEN st
    ELSE gen_fields_self(set_self_type(st, cls_fields[i][1], cls),
                         cls_fields, i + 1, cls)

\* A mutant of _fix_dst_type: the self type is taken whenever there is one.
fix_self_Always(dt, st, o) ==
    IF st[get_self_type_of(o)] # None
        THEN [exc |-> None, dt |-> [dt EXCEPT ![o] = st[get_self_type_of(o)]]]
        ELSE [exc |-> "ValueError", dt |-> dt]

\* A mutant of _fix_dst_type that leaves the marker where there is no self
\* type, without raising.
fix_self_NoRaise(dt, st, o) ==
    IF dt[o] = PinnedSelf /\ st[get_self_type_of(o)] # None
        THEN [exc |-> None, dt |-> [dt EXCEPT ![o] = st[get_self_type_of(o)]]]
        ELSE [exc |-> None, dt |-> dt]

\* _fix_dst_type when _dst_type may be PinnedSelf: the result is the
\* exception raised and the new _dst_type.
fix_self(dt, st, o) ==
    IF dt[o] = PinnedSelf
        THEN IF st[get_self_type_of(o)] # None
                THEN [exc |-> None,
                      dt |-> [dt EXCEPT ![o] = st[get_self_type_of(o)]]]
                ELSE [exc |-> "ValueError", dt |-> dt]
        ELSE [exc |-> None, dt |-> dt]

\* The classes declared in SpecSelf: B may be a subclass of A that inherits
\* its fields, or A of B.
UserClasses == {"A", "B"}

\* The fields of a class: some of the objects.
SelfFieldLists ==
    { << <<"p", ObjDesc("p")>>, <<"a", ObjDesc("a")>> >>,
      << <<"q", ObjDesc("q")>> >>,
      << <<"p", ObjDesc("p")>>, <<"a", ObjDesc("a")>>, <<"q", ObjDesc("q")>> >> }

InitSelf ==
    /\ vm = ZeroMem
    /\ last = NoCall /\ hist = <<>> /\ nops = 0 /\ views = {}
    /\ NoClasses /\ NoCache /\ NoAlloc
    /\ _self_type = [o \in Objs |-> None]
    /\ _dst_type = InitDstType

\* class cls(PinnedStruct): fields = cls_fields.  A subclass that inherits
\* fields, or a class given the fields of another, lists the same objects.
SelfDeclare(cls, cls_fields) ==
    /\ cls \notin DOMAIN fields
    /\ fields' = Put(fields, cls, cls_fields)
    /\ _attrs' = Put(_attrs, cls, gen_fields(cls_fields, None).attrs)
    /\ _size' = Put(_size, cls, gen_fields(cls_fields, None).size)
    /\ _self_type' = gen_fields_self(_self_type, cls_fields, 1, cls)
    /\ last' = [op |-> "class", cls |-> cls, exc |-> None]
    /\ UNCHANGED <<vm, hist, nops, views, _dst_type, cacheVars, allocVars>>

\* cls.gen_fields() again on a declared class.
SelfGenFields(cls) ==
    /\ cls \in DOMAIN fields
    /\ _attrs' = Put(_attrs, cls, gen_fields(fields[cls], None).attrs)
    /\ _size' = Put(_size, cls, gen_fields(fields[cls], None).size)
    /\ _self_type' = gen_fields_self(_self_type, fields[cls], 1, cls)
    /\ last' = [op |-> "gen_fields", cls |-> cls, exc |-> None]
    /\ UNCHANGED <<vm, hist, nops, views, fields, _dst_type, cacheVars,
                   allocVars>>

\* The pointer whose target is read through the field o of a class: the
\* field itself, or the field_type of an Array.
PtrOfField(o) == IF o = "a" THEN "ae" ELSE o

\* cls._attrs[name]["field"].dst_type through a declared class, for a Ptr to
\* PinnedSelf (p, or ae of the array a): _fix_dst_type, then _dst_type.
SelfDstType(cls, name) ==
    LET o   == PtrOfField(name)
        res == fix_self(_dst_type, _self_type, o)
    IN
    /\ cls \in UserClasses \cap DOMAIN fields
    /\ name \in {"p", "a"} \cap DOMAIN _attrs[cls]
    /\ _dst_type' = res.dt
    /\ last' = [op |-> "dst_type", cls |-> cls, obj |-> o, exc |-> res.exc,
                ret |-> res.dt[o], target |-> res.dt[o], observed |-> {o}]
    /\ UNCHANGED <<vm, hist, nops, views, classVars, _self_type, cacheVars,
                   allocVars>>

\* The same for q, a Ptr to the Type instance qi: _fix_dst_type pins qi.
\* pin hashes qi, which reads qi.dst_type; a type that pin creates is a
\* struct of the one field "value", and its gen_fields sets qi._self_type.
SelfDstTypeNested(cls) ==
    LET inner == fix_self(_dst_type, _self_type, "qi")
        field == Ptr("<I", inner.dt["qi"])
        res   == pin(DYN_MEM_STRUCT_CACHE, ntypes, field)
        value == << <<"value", field>> >>
    IN
    /\ cls \in UserClasses \cap DOMAIN fields
    /\ "q" \in DOMAIN _attrs[cls]
    /\ IF _dst_type["q"] \notin Objs
          THEN /\ last' = [op |-> "dst_type", cls |-> cls, obj |-> "q",
                           exc |-> None, ret |-> _dst_type["q"],
                           target |-> _dst_type["qi"], observed |-> {"q"}]
               /\ UNCHANGED <<classVars, selfVars, cacheVars>>
          ELSE IF inner.exc # None
          THEN /\ last' = [op |-> "dst_type", cls |-> cls, obj |-> "q",
                           exc |-> inner.exc, ret |-> None, target |-> None,
                           observed |-> {"q", "qi"}]
               /\ UNCHANGED <<classVars, selfVars, cacheVars>>
          ELSE /\ DYN_MEM_STRUCT_CACHE' = res.cache
               /\ ntypes' = res.ntypes
               /\ IF res.ntypes # ntypes
                     THEN /\ fields' = Put(fields, res.type, value)
                          /\ _attrs' = Put(_attrs, res.type,
                                           gen_fields(value, None).attrs)
                          /\ _size' = Put(_size, res.type,
                                          gen_fields(value, None).size)
                          /\ _self_type' =
                                set_self_type(_self_type, "qi", res.type)
                     ELSE UNCHANGED <<classVars, _self_type>>
               /\ _dst_type' = [inner.dt EXCEPT !["q"] = res.type]
               /\ last' = [op |-> "dst_type", cls |-> cls, obj |-> "q",
                           exc |-> None, ret |-> res.type,
                           target |-> inner.dt["qi"],
                           observed |-> {"q", "qi"}]
    /\ UNCHANGED <<vm, hist, nops, views, allocVars>>

NextSelf ==
    \/ \E cls \in UserClasses, cls_fields \in SelfFieldLists :
          SelfDeclare(cls, cls_fields)
    \/ \E cls \in UserClasses : SelfGenFields(cls)
    \/ \E cls \in UserClasses, name \in {"p", "a"} : SelfDstType(cls, name)
    \/ \E cls \in UserClasses : SelfDstTypeNested(cls)

SpecSelf == InitSelf /\ [][NextSelf]_vars

\* o._set_self_type(cls) called from outside of gen_fields.
SelfNotify(o, cls) ==
    /\ cls \in DOMAIN fields
    /\ _self_type' = set_self_type(_self_type, o, cls)
    /\ last' = [op |-> "_set_self_type", cls |-> cls, obj |-> o, exc |-> None]
    /\ UNCHANGED <<vm, hist, nops, views, classVars, _dst_type, cacheVars,
                   allocVars>>

NextSelfNotify ==
    \/ NextSelf
    \/ \E o \in Objs, cls \in UserClasses : SelfNotify(o, cls)

SpecSelfNotify == InitSelf /\ [][NextSelfNotify]_vars

\* C6: the target read through the field directory of a class T, for a Ptr
\* to the Self marker that is a field of T, the element of an Array field or
\* the target of a nested Ptr, is T, whatever classes were declared before.
C6_SelfIsTheClass ==
    (last.op = "dst_type" /\ last.exc = None) => last.target = last.cls

\* A resolved target stays, and only a read of dst_type replaces the marker.
C7_Step ==
    \A o \in PtrObjs :
       /\ _dst_type[o] \notin {PinnedSelf} \cup Objs
             => _dst_type'[o] = _dst_type[o]
       /\ _dst_type'[o] # _dst_type[o]
             => last'.op = "dst_type" /\ o \in last'.observed

\* C7: the marker of a pointer is replaced by the self type at the first
\* read of its target and not before; once replaced, the target is the same
\* at every later read, whatever declarations, gen_fields or _set_self_type
\* calls reach the descriptor.
C7_ResolvedOnce ==
    /\ [][C7_Step]_vars
    /\ [](last.op = "dst_type" /\ last.exc = None
             => last.ret = _dst_type[last.obj] /\ last.ret \notin Objs
                /\ last.ret # PinnedSelf)

C7_Witness ==
    /\ last.op = "dst_type" /\ last.obj = "p" /\ last.ret = "A"
    /\ _self_type["p"] = "B"
    /\ _dst_type["ae"] = PinnedSelf /\ _self_type["ae"] = "B"

(***************************************************************************)
(* SpecAlloc: set_allocator and the construction of views, with an address *)
(* or without.  The allocator is a function of the caller: it is named, it *)
(* may return any address, and alloc_calls holds its calls.                *)
(***************************************************************************)
\* addr=None
NoAddr == -1

\* The kinds of view constructed: a struct class, PinnedSizedArray with a
\* field_type and an array_len or without the array_len, PinnedArray with a
\* field_type, PinnedStr and PinnedVoid.
StructKind(cls) == [kind |-> "PinnedStruct", cls |-> cls]

SizedArrayKind(field_type, array_len) ==
    [kind |-> "PinnedSizedArray", field_type |-> field_type,
     array_len |-> array_len]

ArrayKind(field_type) == [kind |-> "PinnedArray", field_type |-> field_type]

StrKind(encoding) == [kind |-> "PinnedStr", encoding |-> encoding]

VoidKind == [kind |-> "PinnedVoid"]

AllocKinds ==
    {StructKind("DataArray"), StructKind("DataStr"),
     SizedArrayKind(Num("<H"), 3), SizedArrayKind(Num("B"), NoLen),
     ArrayKind(Num("B")), StrKind("ansi"), StrKind("utf16"), VoidKind}

AllocFuncs == {"vm_alloc", "other_alloc"}

\* The addresses given to a constructor, and returned by an allocator.
AllocAddrs == {0, 8}

\* A mutant of set_allocator: the first allocator installed stays.
set_allocator_Once(cur, alloc_func) == IF cur = None THEN alloc_func ELSE cur

\* set_allocator(alloc_func): the new value of ALLOCATOR.
set_allocator(cur, alloc_func) == alloc_func

\* self.get_size() during __init__: the exception raised, and the size.
\* PinnedStr reads self._enc, which __init__ sets after the call; PinnedArray
\* and PinnedVoid have the sizeof that raises.
get_size(k) ==
    CASE k.kind = "PinnedStruct" ->
            [exc |-> None, size |-> PinnedStruct_sizeof(k.cls)]
      [] k.kind = "PinnedSizedArray" ->
            IF k.array_len = NoLen
               THEN [exc |-> "TypeError", size |-> 0]
               ELSE [exc |-> None, size |-> k.array_len * size(k.field_type)]
      [] k.kind = "PinnedArray" -> [exc |-> "ValueError", size |-> 0]
      [] k.kind = "PinnedStr" -> [exc |-> "AttributeError", size |-> 0]
      [] k.kind = "PinnedVoid" -> [exc |-> "NotImplementedError", size |-> 0]

\* PinnedType.__init__(vm, addr): the exception raised, self._addr and the
\* calls of the allocator, which returns ret.
PinnedType_init(allocator, k, addr, ret) ==
    IF addr = NoAddr
       THEN IF allocator = None
               THEN [exc |-> "ValueError", addr |-> NoAddr, calls |-> <<>>]
            ELSE IF get_size(k).exc # None
               THEN [exc |-> get_size(k).exc, addr |-> NoAddr, calls |-> <<>>]
            ELSE [exc |-> None, addr |-> ret,
                  calls |-> <<[alloc |-> allocator, size |-> get_size(k).size,
                               ret |-> ret]>>]
       ELSE [exc |-> None, addr |-> addr, calls |-> <<>>]

\* The constructor of the kind: PinnedSizedArray.__init__ raises after
\* PinnedType.__init__ if there is no array_len.
construct(allocator, k, addr, ret) ==
    LET res == PinnedType_init(allocator, k, addr, ret) IN
    IF res.exc = None /\ k.kind = "PinnedSizedArray" /\ k.array_len = NoLen
       THEN [res EXCEPT !.exc = "NotImplementedError"]
       ELSE res

InitAlloc ==
    /\ vm = [a \in 0..(MemSize - 1) |-> 90]
    /\ last = NoCall /\ hist = <<>> /\ nops = 0 /\ views = {}
    /\ Declared(<< <<"DataArray", DataArray_fields>>,
                   <<"DataStr", DataStr_fields>> >>)
    /\ NoSelf /\ NoCache /\ NoAlloc

\* set_allocator(alloc_func); hist holds the allocators installed.
AllocSetAllocator(alloc_func) ==
    /\ nops < MaxAllocOps
    /\ nops' = nops + 1
    /\ ALLOCATOR' = set_allocator(ALLOCATOR, alloc_func)
    /\ hist' = Append(hist, alloc_func)
    /\ last' = [op |-> "set_allocator", exc |-> None]
    /\ UNCHANGED <<vm, views, classVars, selfVars, cacheVars, alloc_calls>>

\* kind(vm, addr), or kind(vm) if addr is NoAddr.
AllocConstruct(k, addr, ret) ==
    LET res == construct(ALLOCATOR, k, addr, ret) IN
    /\ nops < MaxAllocOps
    /\ nops' = nops + 1
    /\ addr = NoAddr \/ ret = addr
    /\ alloc_calls' = alloc_calls \o res.calls
    /\ views' = IF res.exc = None THEN views \cup {k @@ [addr |-> res.addr]}
                                  ELSE views
    /\ last' = [op |-> "construct", kind |-> k, arg |-> addr, exc |-> res.exc,
                addr |-> res.addr]
    /\ UNCHANGED <<vm, hist, classVars, selfVars, cacheVars, ALLOCATOR>>

NextAlloc ==
    \/ \E alloc_func \in AllocFuncs : AllocSetAllocator(alloc_func)
    \/ \E k \in AllocKinds, addr \in AllocAddrs \cup {NoAddr},
          ret \in AllocAddrs : AllocConstruct(k, addr, ret)

SpecAlloc == InitAlloc /\ [][NextAlloc]_vars

\* The kinds with a size, and their size: the sum of the sizes of the
\* fields of a struct, the length times the size of the element of an array.
C9_Sized(k) ==
    \/ k.kind = "PinnedStruct"
    \/ k.kind = "PinnedSizedArray" /\ k.array_len # NoLen

C9_Size(k) ==
    IF k.kind = "PinnedStruct"
       THEN PrefixSize(fields[k.cls], Len(fields[k.cls]))
       ELSE k.array_len * size(k.field_type)

\* What one construction does, by the three cases and the explicit address.
C9_Step ==
    last'.op = "construct" /\ nops' # nops =>
       /\ vm' = vm
       /\ last'.arg # NoAddr =>
             /\ alloc_calls' = alloc_calls
             /\ last'.exc = None => last'.addr = last'.arg
       /\ last'.arg = NoAddr /\ hist = <<>> =>
             last'.exc # None /\ alloc_calls' = alloc_calls /\ views' = views
       /\ last'.arg = NoAddr /\ hist # <<>> /\ ~C9_Sized(last'.kind) =>
             last'.exc # None /\ alloc_calls' = alloc_calls /\ views' = views
       /\ last'.arg = NoAddr /\ hist # <<>> /\ C9_Sized(last'.kind) =>
             /\ last'.exc = None
             /\ Len(alloc_calls') = Len(alloc_calls) + 1
             /\ SubSeq(alloc_calls', 1, Len(alloc_calls)) = alloc_calls
             /\ alloc_calls'[Len(alloc_calls')] =
                   [alloc |-> hist[Len(hist)], size |-> C9_Size(last'.kind),
                    ret |-> last'.addr]

NoCap == -1

\* s.decode("latin1") and its inverse: the character of a byte is the byte.
decode_latin1(bytes) == [k \in 1..Len(bytes) |-> bytes[k]]

encode_latin1(s) == [k \in 1..Len(s) |-> s[k] % 256]

\* s.encode('utf-16le'): the low byte, then the high byte of each unit.
encode_utf16le(s) ==
    [k \in 1..(2 * Len(s)) |->
        IF k % 2 = 1 THEN s[(k + 1) \div 2] % 256 ELSE s[k \div 2] \div 256]

\* s.decode('utf-16le')
decode_utf16le(bytes) ==
    [k \in 1..(Len(bytes) \div 2) |-> bytes[2 * k - 1] + 256 * bytes[2 * k]]

RECURSIVE str_scan(_, _, _, _, _)
\* The while loop of get_str_ansi (w = 1) and of get_str_utf16 (w = 2),
\* from l: vm.get_mem(tmp, w) faults on unmapped memory.
str_scan(mem, addr, max_char, w, l) ==
    IF max_char # NoCap /\ l >= max_char
        THEN [exc |-> None, l |-> l, nread |-> l]
    ELSE IF ~Mapped(addr + l, w)
        THEN [exc |-> "VmFault", l |-> l, nread |-> l]
    ELSE IF get_mem(mem, addr + l, w) = [k \in 1..w |-> 0]
        THEN [exc |-> None, l |-> l, nread |-> l + w]
    ELSE str_scan(mem, addr, max_char, w, l + w)

get_str_ansi(mem, addr, max_char) ==
    LET scan == str_scan(mem, addr, max_char, 1, 0) IN
    [exc |-> scan.exc, l |-> scan.l, nread |-> scan.nread,
     val |-> IF scan.exc = None THEN decode_latin1(get_mem(mem, addr, scan.l))
                                ELSE <<>>]

RECURSIVE str_scan_AnyOffset(_, _, _, _)
\* A mutant of get_str_utf16: the pair of zero bytes is looked for at every
\* offset.
str_scan_AnyOffset(mem, addr, max_char, l) ==
    IF max_char # NoCap /\ l >= max_char
        THEN [exc |-> None, l |-> l, nread |-> l]
    ELSE IF ~Mapped(addr + l, 2)
        THEN [exc |-> "VmFault", l |-> l, nread |-> l]
    ELSE IF get_mem(mem, addr + l, 2) = <<0, 0>>
        THEN [exc |-> None, l |-> l, nread |-> l + 2]
    ELSE str_scan_AnyOffset(mem, addr, max_char, l + 1)

get_str_utf16_AnyOffset(mem, addr, max_char) ==
    LET scan == str_scan_AnyOffset(mem, addr, max_char, 0) IN
    [exc |-> scan.exc, l |-> scan.l, nread |-> scan.nread,
     val |-> IF scan.exc = None THEN decode_utf16le(get_mem(mem, addr, scan.l))
                                ELSE <<>>]

get_str_utf16(mem, addr, max_char) ==
    LET scan == str_scan(mem, addr, max_char, 2, 0) IN
    [exc |-> scan.exc, l |-> scan.l, nread |-> scan.nread,
     val |-> IF scan.exc = None THEN decode_utf16le(get_mem(mem, addr, scan.l))
                                ELSE <<>>]

\* The bytes that set_str_ansi and set_str_utf16 hand to vm.set_mem.
set_str_ansi_bytes(s) == Append(encode_latin1(s), 0)

set_str_utf16_bytes(s) == encode_utf16le(Append(s, 0))

\* PinnedStr: a view is [cls |-> "PinnedStr", addr, enc].
PinnedStr(addr, encoding) ==
    [cls |-> "PinnedStr", addr |-> addr, enc |-> encoding]

\* PinnedStr.value, the getter: get_str of the encoding, without a cap.
PinnedStr_value(mem, view) ==
    IF view.enc = "ansi" THEN get_str_ansi(mem, view.addr, NoCap)
                         ELSE get_str_utf16(mem, view.addr, NoCap)

\* PinnedStr.value, the setter: the bytes written at get_addr().
PinnedStr_set_bytes(view, s) ==
    IF view.enc = "ansi" THEN set_str_ansi_bytes(s) ELSE set_str_utf16_bytes(s)

\* PinnedStr.get_size: from the value read.
PinnedStr_get_size(mem, view) ==
    IF view.enc = "ansi" THEN Len(PinnedStr_value(mem, view).val) + 1
                         ELSE Len(PinnedStr_value(mem, view).val) * 2 + 2

\* PinnedStr.raw
PinnedStr_raw(mem, view) ==
    get_mem(mem, view.addr, PinnedStr_get_size(mem, view))

(***************************************************************************)
(* SpecStr: string views assigned, and strings read with a cap or without, *)
(* in a memory that holds no zero byte at first.                           *)
(***************************************************************************)
Miams == <<77, 105, 97, 109, 115>>

\* The strings assigned: units with a zero high byte, a zero low byte, both
\* kinds one after the other.
StrVals == {<<>>, <<65>>, <<233, 65>>, <<65, 256>>, <<256, 65>>, <<16640>>, Miams}

Encodings == {"ansi", "utf16"}

StrAddrs == {0, 1, MemSize - 4}

StrCaps == {NoCap, 0, 2, 3}

\* The strings of an encoding: latin1 has the characters below 256.
InEncoding(s, encoding) ==
    encoding = "ansi" => \A k \in 1..Len(s) : s[k] < 256

InitStr ==
    /\ vm = [a \in 0..(MemSize - 1) |-> 90]
    /\ last = NoCall /\ hist = <<>> /\ nops = 0 /\ views = {}
    /\ NoClasses /\ NoSelf /\ NoCache /\ NoAlloc

\* PinnedStr(vm, addr, encoding).value = s
StrSetValue(addr, encoding, s) ==
    LET view  == PinnedStr(addr, encoding)
        bytes == PinnedStr_set_bytes(view, s)
        exc   == IF Mapped(addr, Len(bytes)) THEN None ELSE "VmFault"
    IN
    /\ nops < MaxStrOps
    /\ InEncoding(s, encoding)
    /\ nops' = nops + 1
    /\ vm' = IF exc = None THEN set_mem(vm, addr, bytes) ELSE vm
    /\ views' = views \cup {view}
    /\ last' = [op |-> "set_value", view |-> view, s |-> s, exc |-> exc]
    /\ UNCHANGED <<hist, classVars, selfVars, cacheVars, allocVars>>

\* get_str_ansi(vm, addr, max_char) or get_str_utf16(vm, addr, max_char)
StrGetStr(addr, encoding, max_char) ==
    LET res == IF encoding = "ansi" THEN get_str_ansi(vm, addr, max_char)
                                    ELSE get_str_utf16(vm, addr, max_char)
    IN
    /\ nops < MaxStrOps
    /\ nops' = nops + 1
    /\ last' = [op |-> "get_str", enc |-> encoding, addr |-> addr,
                max_char |-> max_char, exc |-> res.exc, val |-> res.val,
                l |-> res.l, nread |-> res.nread]
    /\ UNCHANGED <<vm, hist, views, classVars, selfVars, cacheVars, allocVars>>

NextStr ==
    \/ \E addr \in StrAddrs, encoding \in Encodings, s \in StrVals :
          StrSetValue(addr, encoding, s)
    \/ \E addr \in StrAddrs, encoding \in Encodings, max_char \in StrCaps :
          StrGetStr(addr, encoding, max_char)

SpecStr == InitStr /\ [][NextStr]_vars

\* The encoding of a string and its terminator, written out.
C11_Encoded(s, encoding) ==
    IF encoding = "ansi"
       THEN [k \in 1..(Len(s) + 1) |-> IF k <= Len(s) THEN s[k] ELSE 0]
       ELSE [k \in 1..(2 * Len(s) + 2) |->
               IF k > 2 * Len(s) THEN 0
               ELSE IF k % 2 = 1 THEN s[(k + 1) \div 2] % 256
               ELSE s[k \div 2] \div 256]

\* C11: after s, without a NUL, is assigned to a string view at A, the
\* bytes at A are the encoding of s and the terminator (one zero byte for
\* ansi, two for utf16), the value read is s, get_size() is the length of
\* these bytes and raw() gives them; for utf16 a zero unit ends the string
\* only at an even offset from A.
C11_StringRoundTrip ==
    (last.op = "set_value" /\ last.exc = None) =>
        LET view == last.view
            enc  == C11_Encoded(last.s, view.enc)
        IN  /\ get_mem(vm, view.addr, Len(enc)) = enc
            /\ PinnedStr_value(vm, view).exc = None
            /\ PinnedStr_value(vm, view).val = last.s
            /\ PinnedStr_get_size(vm, view) = Len(enc)
            /\ PinnedStr_raw(vm, view) = enc
            /\ (last.s = Miams /\ view.enc = "utf16") =>
                  enc = <<77, 0, 105, 0, 97, 0, 109, 0, 115, 0, 0, 0>>

C11_Witness ==
    /\ last.op = "set_value" /\ last.exc = None
    /\ last.view = PinnedStr(1, "utf16") /\ last.s = <<65, 256>>
    /\ get_mem(vm, 1, 6) = <<65, 0, 0, 1, 0, 0>>
    /\ PinnedStr_value(vm, last.view).val = <<65, 256>>

\* The width of a code unit, and of the terminator.
C19_Width(encoding) == IF encoding = "ansi" THEN 1 ELSE 2

\* No terminator starts in the m bytes from addr: no zero unit at an offset
\* that is a multiple of the width.
C19_NoTerminator(addr, m, w) ==
    \A j \in 0..(m - 1) :
       j % w = 0 => Mapped(addr + j, w)
                    /\ get_mem(vm, addr + j, w) # [k \in 1..w |-> 0]

\* C19: a string read with a cap of m bytes, in a memory without a
\* terminator before the cap, reads no byte at or after addr + m and decodes
\* at most m bytes; without a cap the read stops at the first terminator, or
\* fails with the fault of the VM if unmapped memory comes first.
C19_CappedRead ==
    last.op = "get_str" =>
       LET w == C19_Width(last.enc) IN
       /\ (last.max_char # NoCap
              /\ C19_NoTerminator(last.addr, last.max_char, w))
             => /\ last.exc = None
                /\ last.nread <= last.max_char
                /\ last.l <= last.max_char
       /\ last.max_char = NoCap =>
             /\ C19_NoTerminator(last.addr, last.l, w)
             /\ \/ /\ last.exc = None
                   /\ get_mem(vm, last.addr + last.l, w) = [k \in 1..w |-> 0]
                \/ /\ last.exc = "VmFault"
                   /\ ~Mapped(last.addr + last.l, w)

(***************************************************************************)
(* PinnedSizedArray views: element and slice access.  An access gives the  *)
(* exception raised, the value read or the memory written, and the set of  *)
(* the addresses it touched.                                               *)
(***************************************************************************)
\* PinnedSizedArray.get_size
PinnedSizedArray_get_size(view) == view.array_len * size(view.field_type)

\* PinnedSizedArray._check_bounds: what it raises.
PinnedSizedArray_check_bounds(view, idx) ==
    IF idx < 0 \/ idx >= PinnedSizedArray_get_size(view) THEN "IndexError"
                                                         ELSE None

\* PinnedArray.index2addr, once _check_bounds has passed.
index2addr_NoScale(view, idx) == view.addr + idx

index2addr(view, idx) == view.addr + idx * size(view.field_type)

\* The addresses of the element that index2addr gives for idx.
ElementAddrs(view, idx) ==
    {index2addr(view, idx) + k : k \in 0..(size(view.field_type) - 1)}

\* self[idx]
getitem(mem, view, idx) ==
    IF PinnedSizedArray_check_bounds(view, idx) # None
        THEN [exc |-> PinnedSizedArray_check_bounds(view, idx), val |-> 0,
              touched |-> {}]
    ELSE IF ~Mapped(index2addr(view, idx), size(view.field_type))
        THEN [exc |-> "VmFault", val |-> 0,
              touched |-> ElementAddrs(view, idx)]
    ELSE [exc |-> None,
          val |-> Type_get(view.field_type, mem, index2addr(view, idx)),
          touched |-> ElementAddrs(view, idx)]

\* self[idx] = item
setitem(mem, view, idx, item) ==
    IF PinnedSizedArray_check_bounds(view, idx) # None
        THEN [exc |-> PinnedSizedArray_check_bounds(view, idx), mem |-> mem,
              touched |-> {}]
    ELSE IF Type_set_exc(view.field_type, index2addr(view, idx), item) # None
        THEN [exc |-> Type_set_exc(view.field_type, index2addr(view, idx),
                                   item),
              mem |-> mem, touched |-> {}]
    ELSE [exc |-> None,
          mem |-> Type_set(view.field_type, mem, index2addr(view, idx), item),
          touched |-> ElementAddrs(view, idx)]

\* A mutant of xrange: the step is lost.
xrange_NoStep(start, stop, step) ==
    [k \in 1..(IF stop > start THEN stop - start ELSE 0) |-> start + k - 1]

\* xrange(start, stop, step), as the sequence of its numbers.
xrange(start, stop, step) ==
    LET n == IF step > 0 /\ stop > start
                THEN (stop - start + step - 1) \div step
             ELSE IF step < 0 /\ start > stop
                THEN (start - stop - step - 1) \div (0 - step)
             ELSE 0
    IN  [k \in 1..n |-> start + (k - 1) * step]

\* zip(a, b)
Min(a, b) == IF a < b THEN a ELSE b

RECURSIVE setitem_loop(_, _, _, _, _, _)
\* for i, val in zip(xrange(...), item): field_type.set(vm, index2addr(i),
\* val), from the k-th pair on; an exception leaves what was written.
setitem_loop(mem, view, idxs, item, k, touched) ==
    IF k > Min(Len(idxs), Len(item))
        THEN [exc |-> None, mem |-> mem, touched |-> touched]
    ELSE LET one == setitem(mem, view, idxs[k], item[k]) IN
         IF one.exc # None
            THEN [exc |-> one.exc, mem |-> mem, touched |-> touched]
            ELSE setitem_loop(one.mem, view, idxs, item, k + 1,
                              touched \cup one.touched)

\* self[start:stop:step] = item, with the three numbers given.
setitem_slice(mem, view, start, stop, step, item) ==
    IF Len(item) # Len(xrange(start, stop, step))
        THEN [exc |-> "ValueError", mem |-> mem, touched |-> {}]
        ELSE setitem_loop(mem, view, xrange(start, stop, step), item, 1, {})

\* The values handed to Array.set: a list, or a PinnedSizedArray view.
ListVal(items) == [type |-> "list", items |-> items]

ViewVal(view) == [type |-> "PinnedSizedArray", view |-> view]

\* len(view) and str(view) of a PinnedSizedArray: get_size() and raw().
PinnedSizedArray_raw(mem, view) ==
    get_mem(mem, view.addr, PinnedSizedArray_get_size(view))

RECURSIVE Array_set_loop(_, _, _, _, _)
\* for elt in val: self.field_type.set(vm, addr + offset, elt), from the
\* k-th element on; an exception leaves what was written.
Array_set_loop(field, mem, addr, items, k) ==
    LET at == addr + (k - 1) * size(field.field_type) IN
    IF k > Len(items) THEN [exc |-> None, mem |-> mem]
    ELSE IF Type_set_exc(field.field_type, at, items[k]) # None
        THEN [exc |-> Type_set_exc(field.field_type, at, items[k]),
              mem |-> mem]
    ELSE Array_set_loop(field, Type_set(field.field_type, mem, at, items[k]),
                        addr, items, k + 1)

\* Array.set(vm, addr, val): the exception raised and the memory left.
Array_set(field, mem, addr, val) ==
    IF val.type = "PinnedSizedArray"
        THEN IF val.view.array_len # field.array_len
                   \/ PinnedSizedArray_get_size(val.view) # size(field)
                THEN [exc |-> "ValueError", mem |-> mem]
             ELSE IF ~Mapped(addr, size(field))
                THEN [exc |-> "VmFault", mem |-> mem]
             ELSE [exc |-> None,
                   mem |-> set_mem(mem, addr,
                                   PinnedSizedArray_raw(mem, val.view))]
    ELSE IF val.type = "list"
        THEN IF Len(val.items) # field.array_len
                THEN [exc |-> "ValueError", mem |-> mem]
                ELSE Array_set_loop(field, mem, addr, val.items, 1)
    ELSE [exc |-> "RuntimeError", mem |-> mem]

(***************************************************************************)
(* SpecArray: element and slice accesses of two array views at the same    *)
(* address of a zeroed memory: 8 elements of 1 byte, 3 elements of 2.      *)
(***************************************************************************)
ArrayViews ==
    {PinnedSizedArray(4, Num("B"), 8), PinnedSizedArray(4, Num("<H"), 3)}

ArrayIdx == {-8, -3, -1, 0, 2, 3, 5, 6, 7, 8}

ArrayItem == 165

\* start, stop, step
ArraySlices ==
    {<<2, 6, 1>>, <<0, 8, 2>>, <<1, 3, 1>>, <<5, 1, -2>>, <<0, 3, 1>>,
     <<6, 10, 1>>}

ArrayItems == {<<1, 2, 3, 4>>, <<7, 8>>, <<9, 10, 11>>, <<>>}

\* The Array descriptors assigned to, at ArrayFieldAddr, and the values
\* assigned: lists, the two views, views of another length, of another
\* element, a number.  One list holds an element that a 2-byte element
\* cannot hold.
ArrayFields == {Array(Num("<H"), 3), Array(Num("B"), 8)}

ArrayFieldAddr == 14

ArrayVals ==
    {ListVal(items) : items \in ArrayItems \cup {<<1, 2, 3, 4, 5, 6, 7, 8>>,
                                                 <<1, 70000, 3>>}}
       \cup {ViewVal(view) : view \in ArrayViews}
       \cup {ViewVal(PinnedSizedArray(4, Num(">H"), 3)),
             ViewVal(PinnedSizedArray(4, Num("B"), 6)),
             ViewVal(PinnedSizedArray(4, Num("<H"), 4)),
             [type |-> "int"]}

InitArray ==
    /\ vm = ZeroMem
    /\ last = NoCall /\ hist = <<>> /\ nops = 0
    /\ views = ArrayViews
    /\ NoClasses /\ NoSelf /\ NoCache /\ NoAlloc

ArrayGetItem(view, idx) ==
    LET res == getitem(vm, view, idx) IN
    /\ nops < MaxArrayOps
    /\ nops' = nops + 1
    /\ last' = [op |-> "getitem", view |-> view, idx |-> idx, exc |-> res.exc,
                val |-> res.val, touched |-> res.touched]
    /\ UNCHANGED <<vm, hist, views, classVars, selfVars, cacheVars, allocVars>>

ArraySetItem(view, idx, item) ==
    LET res == setitem(vm, view, idx, item) IN
    /\ nops < MaxArrayOps
    /\ nops' = nops + 1
    /\ vm' = res.mem
    /\ last' = [op |-> "setitem", view |-> view, idx |-> idx, exc |-> res.exc,
                val |-> item, touched |-> res.touched, before |-> vm]
    /\ UNCHANGED <<hist, views, classVars, selfVars, cacheVars, allocVars>>

ArraySetSlice(view, sl, item) ==
    LET res == setitem_slice(vm, view, sl[1], sl[2], sl[3], item) IN
    /\ nops < MaxArrayOps
    /\ nops' = nops + 1
    /\ vm' = res.mem
    /\ last' = [op |-> "setslice", view |-> view, start |-> sl[1],
                stop |-> sl[2], step |-> sl[3], item |-> item,
                exc |-> res.exc, touched |-> res.touched, before |-> vm]
    /\ UNCHANGED <<hist, views, classVars, selfVars, cacheVars, allocVars>>

\* field.set(vm, addr, val) of an Array descriptor.
ArraySetField(field, val) ==
    LET res == Array_set(field, vm, ArrayFieldAddr, val) IN
    /\ nops < MaxArrayOps
    /\ nops' = nops + 1
    /\ vm' = res.mem
    /\ last' = [op |-> "array_set", field |-> field, addr |-> ArrayFieldAddr,
                val |-> val, exc |-> res.exc, before |-> vm]
    /\ UNCHANGED <<hist, views, classVars, selfVars, cacheVars, allocVars>>

NextArray ==
    \/ \E field \in ArrayFields, val \in ArrayVals : ArraySetField(field, val)
    \/ \E view \in ArrayViews, idx \in ArrayIdx : ArrayGetItem(view, idx)
    \/ \E view \in ArrayViews, idx \in ArrayIdx :
          ArraySetItem(view, idx, ArrayItem)
    \/ \E view \in ArrayViews, sl \in ArraySlices, item \in ArrayItems :
          ArraySetSlice(view, sl, item)

SpecArray == InitArray /\ [][NextArray]_vars

\* The bytes of the array of a view.
ArrayRange(view) ==
    {view.addr + k : k \in 0..(view.array_len * size(view.field_type) - 1)}

\* C12: an access of a sized array of len elements at an index i >= len
\* fails with IndexError, and no access of an element touches a byte out of
\* the len * s bytes of the array.
C12_Bounds ==
    last.op \in {"getitem", "setitem"} =>
       /\ last.idx >= last.view.array_len => last.exc = "IndexError"
       /\ last.touched \subseteq ArrayRange(last.view)

\* C13: an access of a sized array of n elements at an index i, -n <= i < 0,
\* is the access of the element n + i.
C13_NegativeIndex ==
    (last.op \in {"getitem", "setitem"} /\ last.idx < 0
        /\ 0 - last.view.array_len <= last.idx) =>
       LET elt == last.view.array_len + last.idx IN
       /\ last.exc = None
       /\ last.touched = ElementAddrs(last.view, elt)
       /\ Type_get(last.view.field_type, vm, index2addr(last.view, elt))
             = last.val

\* The indices of a slice, counted from its definition.
C14_Indices(start, stop, step) ==
    {i \in -16..16 :
        \E k \in 0..16 : /\ i = start + k * step
                         /\ step > 0 => i < stop
                         /\ step < 0 => i > stop}

C15_ArrayAssign ==
    last.op = "array_set" =>
       LET field == last.field
           val   == last.val
       IN
       /\ val.type = "list" =>
             IF Len(val.items) = field.array_len
                THEN /\ last.exc = None
                     /\ \A k \in 0..(field.array_len - 1) :
                           Type_get(field.field_type, vm,
                                    last.addr + k * size(field.field_type))
                              = val.items[k + 1]
                ELSE last.exc = "ValueError"
       /\ val.type = "PinnedSizedArray" =>
             IF val.view.field_type = field.field_type
                   /\ val.view.array_len = field.array_len
                THEN /\ last.exc = None
                     /\ get_mem(vm, last.addr, size(field))
                           = get_mem(last.before, val.view.addr, size(field))
                ELSE last.exc = "ValueError"

(***************************************************************************)
(* SpecFrame: a struct with a field of each kind and a sized array view    *)
(* over the same memory: memset, assignments of fields, of the array       *)
(* field, of the union, of elements of the array, and reads.               *)
(***************************************************************************)
\* A value of the type str: its bytes.
StrVal(bytes) == [type |-> "str", bytes |-> bytes]

\* Union.set(vm, addr, val): the exception raised; nothing is written.
\* For a str the test evaluates len(str), the length of the type.
Union_set_exc(field, val) ==
    IF val.type # "str" THEN "ValueError" ELSE "TypeError"

\* Union.get
Union_get(field, mem, addr) == get_mem(mem, addr, size(field))

\* memset of a PinnedSizedArray: byte * self.get_size() at get_addr().
PinnedSizedArray_memset_Len(mem, view, byte) ==
    set_mem(mem, view.addr, [k \in 1..view.array_len |-> byte])

PinnedSizedArray_memset(mem, view, byte) ==
    set_mem(mem, view.addr,
            [k \in 1..PinnedSizedArray_get_size(view) |-> byte])

\* memset(byte): ValueError unless byte is a str of length 1.
\* An int value, and the None a failed read leaves, as the values of a call.
IntVal(v) == [type |-> "int", int |-> v]

NoVal == [type |-> "NoneType"]

memset_exc(byte) ==
    IF byte.type # "str" \/ Len(byte.bytes) # 1 THEN "ValueError" ELSE None

Frame_fields ==
    << <<"num", Num("<I")>>,
       <<"flags", BitField(Num("B"), << <<"f1", 2>>, <<"f2", 4>> >>)>>,
       <<"arr", Array(Num("<H"), 2)>>,
       <<"u", Union(<< <<"ub", Num("B")>>, <<"uh", Num("<H")>> >>)>>,
       <<"ptr", Ptr("<I", "PinnedVoid")>> >>

FrameView == View("Frame", 2)

FrameArray == PinnedSizedArray(7, Num("<H"), 2)

FrameNumeric == {"num", "flags", "f1", "f2", "ub", "uh", "ptr"}

FrameVals == {5, 4660}

FrameBytes == {StrVal(<<0>>), StrVal(<<17>>), StrVal(<<127>>), StrVal(<<1, 2>>)}

FrameArrayVals ==
    {ListVal(<<1, 2>>), ListVal(<<1, 2, 3>>), ViewVal(FrameArray),
     ViewVal(PinnedSizedArray(0, Num("B"), 2))}

FrameUnionVals ==
    {StrVal(<<1, 2>>), StrVal(<<1>>), StrVal(<<1, 2, 3>>), IntVal(258)}

FrameIdx == {-1, 0, 1, 3}

InitFrame ==
    /\ vm = [a \in 0..(MemSize - 1) |-> 90]
    /\ last = NoCall /\ hist = <<>> /\ nops = 0
    /\ views = {FrameView, FrameArray}
    /\ Declared(<< <<"Frame", Frame_fields>> >>)
    /\ NoSelf /\ NoCache /\ NoAlloc

\* What a call of SpecFrame leaves but the memory: at is the address the
\* descriptor is used at, n its size.
FrameCall(op, target, at, n, val, exc) ==
    /\ nops < MaxFrameOps
    /\ nops' = nops + 1
    /\ last' = [op |-> op, target |-> target, at |-> at, n |-> n, val |-> val,
                exc |-> exc, before |-> vm]
    /\ UNCHANGED <<hist, views, classVars, selfVars, cacheVars, allocVars>>

\* view.memset(byte), for the struct and for the array.
FrameMemset(view, byte) ==
    /\ FrameCall("memset", view, view.addr,
                 IF view.cls = "Frame" THEN PinnedStruct_sizeof(view.cls)
                                       ELSE PinnedSizedArray_get_size(view),
                 byte, memset_exc(byte))
    /\ vm' = IF memset_exc(byte) # None THEN vm
             ELSE IF view.cls = "Frame" THEN memset(vm, view, byte.bytes[1])
             ELSE PinnedSizedArray_memset(vm, view, byte.bytes[1])

\* view.<name> = val for a numeric field.
FrameSetField(name, val) ==
    LET exc == set_field_exc(vm, FrameView, name, val) IN
    /\ FrameCall("set_field", name, get_addr(FrameView, name),
                 size(get_field_type(FrameView, name)), IntVal(val), exc)
    /\ vm' = IF exc = None THEN set_field(vm, FrameView, name, val) ELSE vm

\* view.arr = val
FrameSetArray(val) ==
    LET field == get_field_type(FrameView, "arr")
        res   == Array_set(field, vm, get_addr(FrameView, "arr"), val)
    IN
    /\ FrameCall("array_set", "arr", get_addr(FrameView, "arr"), size(field),
                 val, res.exc)
    /\ vm' = res.mem

\* view.u = val
FrameSetUnion(val) ==
    LET field == get_field_type(FrameView, "u") IN
    /\ FrameCall("union_set", "u", get_addr(FrameView, "u"), size(field), val,
                 Union_set_exc(field, val))
    /\ vm' = vm

\* array[idx] = item
FrameSetItem(idx, item) ==
    LET res == setitem(vm, FrameArray, idx, item) IN
    /\ FrameCall("setitem", idx, FrameArray.addr + idx * size(FrameArray.field_type),
                 size(FrameArray.field_type), IntVal(item), res.exc)
    /\ vm' = res.mem

\* Reads: view.<name>, view.cast(Frame), array[idx], view.deref_ptr.
FrameGet(name) ==
    /\ FrameCall("get_field", name, get_addr(FrameView, name),
                 size(get_field_type(FrameView, name)),
                 IntVal(get_field(vm, FrameView, name)), None)
    /\ vm' = vm

FrameCast(view) ==
    /\ FrameCall("cast", view, view.addr, 0, cast(view, "Frame"), None)
    /\ vm' = vm

FrameGetItem(idx) ==
    /\ FrameCall("getitem", idx, FrameArray.addr + idx * size(FrameArray.field_type),
                 size(FrameArray.field_type),
                 IF getitem(vm, FrameArray, idx).exc # None THEN NoVal
                 ELSE IntVal(getitem(vm, FrameArray, idx).val),
                 getitem(vm, FrameArray, idx).exc)
    /\ vm' = vm

FrameDeref ==
    /\ FrameCall("deref_field", "ptr", get_addr(FrameView, "ptr"), 4,
                 deref_field(vm, FrameView, "ptr"), None)
    /\ vm' = vm

NextFrame ==
    \/ \E view \in {FrameView, FrameArray}, byte \in FrameBytes :
          FrameMemset(view, byte)
    \/ \E name \in FrameNumeric, val \in FrameVals : FrameSetField(name, val)
    \/ \E val \in FrameArrayVals : FrameSetArray(val)
    \/ \E val \in FrameUnionVals : FrameSetUnion(val)
    \/ \E idx \in FrameIdx : FrameSetItem(idx, 4660)
    \/ \E name \in FrameNumeric : FrameGet(name)
    \/ \E view \in {FrameView, FrameArray} : FrameCast(view)
    \/ \E idx \in FrameIdx : FrameGetItem(idx)
    \/ FrameDeref

SpecFrame == InitFrame /\ [][NextFrame]_vars

\* C20: a union field assigned a raw string of size() bytes holds these
\* bytes and a read of the union returns them; a string of another length,
\* or a value that is not a string, fails and writes nothing.
C20_UnionAssign ==
    last.op = "union_set" =>
       IF last.val.type = "str" /\ Len(last.val.bytes) = last.n
          THEN /\ last.exc = None
               /\ get_mem(vm, last.at, last.n) = last.val.bytes
               /\ Union_get(get_field_type(FrameView, "u"), vm, last.at)
                     = last.val.bytes
          ELSE last.exc # None /\ vm = last.before

\* The number a numeric field of FrameView reads when every byte of the struct
\* is b: b in each byte of a little-endian number, the bits of b for f1 (bits
\* 0..1) and f2 (bits 2..5).
AllBytes(name, b) ==
    CASE name \in {"num", "ptr"}  -> b * 16843009
      [] name = "uh"              -> b * 257
      [] name \in {"flags", "ub"} -> b
      [] name = "f1"              -> b % 4
      [] name = "f2"              -> (b \div 4) % 16

\* C16: after memset(b) of a sized view with a single byte b, raw() is size
\* bytes all equal to b, every numeric field (every element of the array)
\* reads the number whose bytes are all b, and no byte outside
\* [addr, addr + size) has changed.
C16_Memset ==
    (last.op = "memset" /\ last.exc = None) =>
       LET view == last.target
           b    == last.val.bytes[1]
       IN
       /\ view.cls = "Frame" =>
             /\ last.n = 15
             /\ raw(vm, view) = [k \in 1..15 |-> b]
             /\ \A name \in FrameNumeric :
                   get_field(vm, view, name) = AllBytes(name, b)
       /\ view.cls = "PinnedSizedArray" =>
             /\ last.n = 4
             /\ PinnedSizedArray_raw(vm, view) = [k \in 1..4 |-> b]
             /\ \A idx \in 0..1 :
                   /\ getitem(vm, view, idx).exc = None
                   /\ getitem(vm, view, idx).val = b * 257
       /\ \A a \in 0..(MemSize - 1) :
             (a < view.addr \/ a >= view.addr + last.n)
                => vm[a] = last.before[a]

\* memset("\x11") of the struct: the u32 field reads 0x11111111.
C16_Witness ==
    /\ last.op = "memset" /\ last.exc = None
    /\ last.target = FrameView /\ last.val.bytes = <<17>>
    /\ get_field(vm, FrameView, "num") = 286331153
    /\ last.before[2] = 90 /\ vm[1] = 90 /\ vm[17] = 90

FrameReads == {"get_field", "cast", "getitem", "deref_field"}

FrameWrites == {"set_field", "setitem", "array_set", "union_set"}

\* The bytes of the struct field name.
FieldRange(name) ==
    {a \in 0..(MemSize - 1) :
        /\ a >= get_addr(FrameView, name)
        /\ a < get_addr(FrameView, name) + size(get_field_type(FrameView, name))}

\* C17: reading a descriptor, casting or dereferencing writes no byte; a set
\* of a descriptor of size n at address a changes no byte outside [a, a + n),
\* so that every struct field which does not overlap it keeps its bytes.
C17_Frame ==
    /\ last.op \in FrameReads => vm = last.before
    /\ last.op \in FrameWrites =>
          /\ \A a \in 0..(MemSize - 1) :
                (a < last.at \/ a >= last.at + last.n) => vm[a] = last.before[a]
          /\ \A name \in FrameNumeric \cup {"arr", "u"} :
                FieldRange(name) \cap (last.at .. (last.at + last.n - 1)) = {}
                   => \A a \in FieldRange(name) : vm[a] = last.before[a]

\* Setting the bit field f2 changes the byte of flags and no other byte.
C17_Witness ==
    /\ last.op = "set_field" /\ last.target = "f2" /\ last.exc = None
    /\ last.at = 6 /\ last.n = 1
    /\ vm[6] # last.before[6]
    /\ \A a \in (0..(MemSize - 1)) \ {6} : vm[a] = last.before[a]

(***************************************************************************)
(* SpecList: the linked list of example/jitter/memstruct.py.  The list and *)
(* its nodes live in the heap the script installs with set_allocator; vm   *)
(* is the window [0, ListMemSize) of the VM that holds them.  hist is the  *)
(* list as a sequence of data addresses, head first.                       *)
(***************************************************************************)
ListNode_fields ==
    << <<"next", Ptr("<I", "ListNode")>>,
       <<"data", Ptr("<I", "PinnedVoid")>> >>

LinkedList_fields ==
    << <<"head", Ptr("<I", "ListNode")>>,
       <<"tail", Ptr("<I", "ListNode")>>,
       <<"size", Num("<I")>> >>

\* The first address my_heap gives.
HeapBase == 4

\* Every push allocates a ListNode (8 bytes) and, at most, a DataArray (22).
ListMemSize == HeapBase + 12 + 30 * MaxListOps + 4

\* my_heap.vm_alloc(vm, size): the address returned after the calls made so
\* far, and the memory with the zero page it adds there.
vm_alloc_addr(calls) ==
    IF calls = <<>> THEN HeapBase
    ELSE calls[Len(calls)].ret + calls[Len(calls)].size

vm_alloc_page(mem, addr, n) == set_mem(mem, addr, [k \in 1..n |-> 0])

\* cls(vm): PinnedType.__init__ without address, with my_heap.vm_alloc as
\* the allocator.
ListAlloc(mem, calls, cls) ==
    LET res == PinnedType_init("vm_alloc", StructKind(cls), NoAddr,
                               vm_alloc_addr(calls))
    IN  [view  |-> View(cls, res.addr),
         calls |-> calls \o res.calls,
         mem   |-> vm_alloc_page(mem, res.addr, PinnedStruct_sizeof(cls))]

\* A pointer field read as a view: its val is the number in the field, its
\* deref the view of the pointed class at that address.
PinnedPtr_val(mem, view, name) == get_field(mem, view, name)

PinnedPtr_deref(mem, view, name) ==
    View(get_field_type(view, name).dst, PinnedPtr_val(mem, view, name))

\* LinkedList.get_head
get_head(mem, link) ==
    IF PinnedPtr_val(mem, link, "head") = 0 THEN None
    ELSE PinnedPtr_deref(mem, link, "head")

\* ListNode.get_data(data_type)
get_data(mem, node, data_type) ==
    IF data_type # None
       THEN cast(PinnedPtr_deref(mem, node, "data"), data_type)
       ELSE PinnedPtr_deref(mem, node, "data")

\* LinkedList.push(data) from the allocation new of its node on: the memory
\* and the allocator calls after it.
push_node(new, link, data) ==
    LET node == new.view
        m1   == set_field(new.mem, node, "data", get_addr(data, None))
        m2   == IF PinnedPtr_val(m1, link, "head") # 0
                   THEN set_field(m1, node, "next",
                                  get_addr(get_head(m1, link), None))
                   ELSE m1
        m3   == set_field(m2, link, "head", get_addr(node, None))
        m4   == IF PinnedPtr_val(m3, link, "tail") = 0
                   THEN set_field(m3, link, "tail", get_addr(node, None))
                   ELSE m3
    IN  [mem   |-> set_field(m4, link, "size", get_field(m4, link, "size") + 1),
         calls |-> new.calls]

\* LinkedList.push(data), the node allocated by my_heap.
push(mem, calls, link, data) ==
    push_node(ListAlloc(mem, calls, "ListNode"), link, data)

\* A mutant of pop that leaves the size field as it is.
pop_KeepSize(mem, link, data_type) ==
    IF PinnedPtr_val(mem, link, "head") = 0
       THEN [ret |-> NoVal, mem |-> mem, exc |-> None]
    ELSE LET node == get_head(mem, link)
             m1   == set_field(mem, link, "head",
                               PinnedPtr_val(mem, node, "next"))
             m2   == IF PinnedPtr_val(m1, link, "head") = 0
                        THEN set_field(m1, link, "tail", 0)
                        ELSE m1
         IN  [ret |-> get_data(m2, node, data_type), mem |-> m2, exc |-> None]

\* LinkedList.pop(data_type): what it returns (NoVal for None), the memory
\* after it and what it raises: self.size -= 1 raises struct.error, after the
\* head and the tail were written, when size is 0.
pop(mem, link, data_type) ==
    IF PinnedPtr_val(mem, link, "head") = 0
       THEN [ret |-> NoVal, mem |-> mem, exc |-> None]
    ELSE LET node == get_head(mem, link)
             m1   == set_field(mem, link, "head",
                               PinnedPtr_val(mem, node, "next"))
             m2   == IF PinnedPtr_val(m1, link, "head") = 0
                        THEN set_field(m1, link, "tail", 0)
                        ELSE m1
             m3   == set_field(m2, link, "size",
                               get_field(m2, link, "size") - 1)
         IN  IF set_field_exc(m2, link, "size",
                              get_field(m2, link, "size") - 1) # None
                THEN [ret |-> NoVal, mem |-> m2,
                      exc |-> set_field_exc(m2, link, "size",
                                            get_field(m2, link, "size") - 1)]
                ELSE [ret |-> get_data(m3, node, data_type), mem |-> m3,
                      exc |-> None]

\* link = LinkedList(vm), the first allocation of the heap.
link == View("LinkedList", HeapBase)

\* After set_allocator(my_heap.vm_alloc), link = LinkedList(vm) and
\* link.memset().
InitList ==
    /\ Declared(<< <<"ListNode", ListNode_fields>>,
                   <<"LinkedList", LinkedList_fields>>,
                   <<"DataArray", DataArray_fields>> >>)
    /\ ALLOCATOR = set_allocator(None, "vm_alloc")
    /\ alloc_calls = <<[alloc |-> "vm_alloc", size |-> 12, ret |-> HeapBase]>>
    /\ vm = memset([a \in 0..(ListMemSize - 1) |-> 90], link, 0)
    /\ views = {link}
    /\ last = NoCall /\ hist = <<>> /\ nops = 0
    /\ NoSelf /\ NoCache

\* The views the script can hold: the list and the DataArray structures.
ListViews == {link} \cup {View("DataArray", a) : a \in 0..(ListMemSize - 1)}

\* link.push(DataArray(vm))
ListPushNew ==
    LET new == ListAlloc(vm, alloc_calls, "DataArray")
        res == push(new.mem, new.calls, link, new.view)
    IN
    /\ nops < MaxListOps
    /\ nops' = nops + 1
    /\ vm' = res.mem
    /\ alloc_calls' = res.calls
    /\ views' = views \cup {new.view}
    /\ hist' = <<new.view.addr>> \o hist
    /\ last' = [op |-> "push", ret |-> NoVal, empty |-> (hist = <<>>),
                before |-> vm]
    /\ UNCHANGED <<classVars, selfVars, cacheVars, ALLOCATOR>>

\* link.push(data) for a view that exists.
ListPush(data) ==
    LET res == push(vm, alloc_calls, link, data) IN
    /\ data \in views
    /\ nops < MaxListOps
    /\ nops' = nops + 1
    /\ vm' = res.mem
    /\ alloc_calls' = res.calls
    /\ hist' = <<data.addr>> \o hist
    /\ last' = [op |-> "push", ret |-> NoVal, empty |-> (hist = <<>>),
                before |-> vm]
    /\ UNCHANGED <<views, classVars, selfVars, cacheVars, ALLOCATOR>>

\* link.pop(data_type)
ListPop(data_type) ==
    LET res == pop(vm, link, data_type) IN
    /\ nops < MaxListOps
    /\ nops' = nops + 1
    /\ vm' = res.mem
    /\ hist' = IF hist = <<>> THEN hist ELSE Tail(hist)
    /\ last' = [op |-> "pop", ret |-> res.ret, empty |-> (hist = <<>>),
                before |-> vm]
    /\ UNCHANGED <<views, classVars, selfVars, cacheVars, allocVars>>

NextList ==
    \/ ListPushNew
    \/ \E data \in ListViews : ListPush(data)
    \/ \E data_type \in {None, "DataArray"} : ListPop(data_type)

SpecList == InitList /\ [][NextList]_vars

RECURSIVE ListData(_, _, _)
\* The data addresses of the nodes from the node at addr on, at most n.
ListData(mem, addr, n) ==
    IF addr = 0 \/ n = 0 THEN <<>>
    ELSE <<get_field(mem, View("ListNode", addr), "data")>>
            \o ListData(mem, get_field(mem, View("ListNode", addr), "next"),
                        n - 1)

EqArray == Array(Num("B"), 2)

\* pin(EqArray): the PinnedStruct subclass with the one field "value" that
\* Ptr._fix_dst_type makes of a descriptor given as dst_type.
PinnedEqArray_fields == << <<"value", EqArray>> >>

EqData_fields ==
    << <<"val1", Num("B")>>,
       <<"arrayptr", Ptr("<I", "PinnedEqArray")>>,
       <<"array", EqArray>> >>

EqStructViews == {View("EqData", 0), View("EqData", 8), View("EqOther", 8)}

EqArrayViews ==
    {PinnedSizedArray(5, Num("B"), 2), PinnedSizedArray(13, Num("B"), 2),
     PinnedSizedArray(13, Num("<B"), 2), PinnedSizedArray(13, Num("B"), 1),
     PinnedSizedArray(13, Num("<H"), 1)}

EqViews == EqStructViews \cup EqArrayViews \cup {View("PinnedEqArray", 5)}

\* str(view): raw()
view_str(mem, view) ==
    IF view.cls = "PinnedSizedArray" THEN PinnedSizedArray_raw(mem, view)
    ELSE raw(mem, view)

\* PinnedSizedArray.__eq__
PinnedSizedArray_eq(mem, self, other) ==
    /\ other.cls = "PinnedSizedArray"
    /\ Type_eq(self.field_type, other.field_type)
    /\ self.array_len = other.array_len
    /\ view_str(mem, self) = view_str(mem, other)

\* PinnedType.__eq__
PinnedType_eq(mem, self, other) ==
    self.cls = other.cls /\ view_str(mem, self) = view_str(mem, other)

\* self == other: the __eq__ of the class of self.
view_eq(mem, self, other) ==
    IF self.cls = "PinnedSizedArray" THEN PinnedSizedArray_eq(mem, self, other)
    ELSE PinnedType_eq(mem, self, other)

\* PinnedType.__ne__: not self == other
view_ne(mem, self, other) == ~view_eq(mem, self, other)

InitEq ==
    /\ vm = ZeroMem
    /\ last = NoCall /\ hist = <<>> /\ nops = 0
    /\ views = EqViews
    /\ Declared(<< <<"EqData", EqData_fields>>,
                   <<"EqOther", EqData_fields>>,
                   <<"PinnedEqArray", PinnedEqArray_fields>> >>)
    /\ NoSelf /\ NoCache /\ NoAlloc

\* view.val1 = val
EqSetVal(view, val) ==
    /\ nops < MaxEqOps
    /\ nops' = nops + 1
    /\ vm' = set_field(vm, view, "val1", val)
    /\ last' = [op |-> "set_field", exc |-> None]
    /\ UNCHANGED <<hist, views, classVars, selfVars, cacheVars, allocVars>>

\* view.array[idx] = item
EqSetItem(view, idx, item) ==
    /\ nops < MaxEqOps
    /\ nops' = nops + 1
    /\ vm' = setitem(vm, get_field(vm, view, "array"), idx, item).mem
    /\ last' = [op |-> "setitem", exc |-> None]
    /\ UNCHANGED <<hist, views, classVars, selfVars, cacheVars, allocVars>>

\* view.arrayptr = view.get_addr("array")
EqSetPtr(view) ==
    /\ nops < MaxEqOps
    /\ nops' = nops + 1
    /\ vm' = set_field(vm, view, "arrayptr", get_addr(view, "array"))
    /\ last' = [op |-> "set_ptr", exc |-> None]
    /\ UNCHANGED <<hist, views, classVars, selfVars, cacheVars, allocVars>>

\* v == w and v != w
EqCompare(v, w) ==
    /\ last' = [op |-> "eq", v |-> v, w |-> w, eq |-> view_eq(vm, v, w),
                ne |-> view_ne(vm, v, w), exc |-> None]
    /\ UNCHANGED <<vm, hist, nops, views, classVars, selfVars, cacheVars,
                   allocVars>>

\* view.deref_arrayptr == view.array
EqDerefCompare(view) ==
    /\ last' = [op |-> "deref_eq", v |-> view,
                w |-> deref_field(vm, view, "arrayptr"),
                eq |-> view_eq(vm, deref_field(vm, view, "arrayptr"),
                               get_field(vm, view, "array")),
                ne |-> view_ne(vm, deref_field(vm, view, "arrayptr"),
                               get_field(vm, view, "array")),
                exc |-> None]
    /\ UNCHANGED <<vm, hist, nops, views, classVars, selfVars, cacheVars,
                   allocVars>>

NextEq ==
    \/ \E view \in EqStructViews, val \in {1} : EqSetVal(view, val)
    \/ \E view \in EqStructViews, idx \in {0, 1} : EqSetItem(view, idx, 7)
    \/ \E view \in EqStructViews : EqSetPtr(view)
    \/ \E v \in EqViews, w \in EqViews : EqCompare(v, w)
    \/ \E view \in EqStructViews : EqDerefCompare(view)

SpecEq == InitEq /\ [][NextEq]_vars

\* The view type of a view: its class and, for a sized array, its element
\* descriptor and length.
SameViewType(v, w) ==
    /\ v.cls = w.cls
    /\ v.cls = "PinnedSizedArray" =>
          v.field_type = w.field_type /\ v.array_len = w.array_len

\* The bytes a view covers.
Covered(mem, v) ==
    get_mem(mem, v.addr,
            IF v.cls = "PinnedSizedArray"
               THEN v.array_len * calcsize(v.field_type.fmt)
               ELSE _size[v.cls])

\* C21: v == w iff v and w have the same view type and cover equal bytes,
\* whatever their addresses; v != w is the negation of v == w; the view a
\* pointer dereferences to equals the array field of the struct once the
\* pointer holds the address of that field.
C21_ViewEquality ==
    /\ last.op = "eq" =>
          /\ last.eq = (SameViewType(last.v, last.w)
                           /\ Covered(vm, last.v) = Covered(vm, last.w))
          /\ last.ne = ~last.eq
    /\ last.op = "deref_eq" =>
          (get_field(vm, last.v, "arrayptr") = get_addr(last.v, "array")
              => last.eq /\ ~last.ne)

(***************************************************************************)
(* SpecUnbound: the pointers to PinnedSelf observed directly, as           *)
(* descriptors, before or after a class lists them in its fields.          *)
(***************************************************************************)
\* The pointers whose target is the marker PinnedSelf.
SelfPtrObjs == {"p", "ae", "qi"}

\* The field an object is reached from: the Array of ae, the Ptr of qi.
TopOf(o) == CASE o = "ae" -> "a" [] o = "qi" -> "q" [] OTHER -> o

InitUnbound ==
    /\ vm = [a \in 0..(MemSize - 1) |-> a + 1]
    /\ last = NoCall /\ hist = <<>> /\ nops = 0 /\ views = {}
    /\ NoClasses /\ NoCache /\ NoAlloc
    /\ _self_type = [o \in Objs |-> None]
    /\ _dst_type = InitDstType

\* What an observation of SpecUnbound leaves in last.
UnboundCall(op, o, exc) ==
    /\ nops < MaxUnboundOps
    /\ nops' = nops + 1
    /\ last' = [op |-> op, obj |-> o, exc |-> exc, before |-> vm,
                views |-> views, dt |-> _dst_type[o]]

\* class cls(PinnedStruct): fields = cls_fields
UnboundDeclare(cls, cls_fields) ==
    /\ nops < MaxUnboundOps
    /\ nops' = nops + 1
    /\ cls \notin DOMAIN fields
    /\ fields' = Put(fields, cls, cls_fields)
    /\ _attrs' = Put(_attrs, cls, gen_fields(cls_fields, None).attrs)
    /\ _size' = Put(_size, cls, gen_fields(cls_fields, None).size)
    /\ _self_type' = gen_fields_self(_self_type, cls_fields, 1, cls)
    /\ last' = [op |-> "class", obj |-> cls, exc |-> None, before |-> vm,
                views |-> views, dt |-> None]
    /\ UNCHANGED <<vm, hist, views, _dst_type, cacheVars, allocVars>>

\* o.dst_type
UnboundDstType(o) ==
    LET res == fix_self(_dst_type, _self_type, o) IN
    /\ UnboundCall("dst_type", o, res.exc)
    /\ _dst_type' = res.dt
    /\ UNCHANGED <<vm, hist, views, classVars, _self_type, cacheVars,
                   allocVars>>

\* o.deref_get(vm, addr): self.dst_type(vm, addr)
UnboundDerefGet(o, addr) ==
    LET res == fix_self(_dst_type, _self_type, o) IN
    /\ UnboundCall("deref_get", o, res.exc)
    /\ _dst_type' = res.dt
    /\ views' = IF res.exc = None THEN views \cup {View(res.dt[o], addr)}
                                  ELSE views
    /\ UNCHANGED <<vm, hist, classVars, _self_type, cacheVars, allocVars>>

\* o.deref_set(vm, addr, val): self.dst_type is read for the sanity check,
\* then vm.set_mem(addr, str(val)).
UnboundDerefSet(o, addr, val) ==
    LET res == fix_self(_dst_type, _self_type, o) IN
    /\ val.cls \in DOMAIN fields
    /\ UnboundCall("deref_set", o, res.exc)
    /\ _dst_type' = res.dt
    /\ vm' = IF res.exc = None THEN set_mem(vm, addr, raw(vm, val)) ELSE vm
    /\ UNCHANGED <<hist, views, classVars, _self_type, cacheVars, allocVars>>

\* pin(o): the lookup in the cache hashes o, which reads o.dst_type; a new
\* type is a struct of the field "value", whose gen_fields sets o._self_type.
UnboundPin(o) ==
    LET fixed == fix_self(_dst_type, _self_type, o)
        field == Ptr("<I", fixed.dt[o])
        res   == pin(DYN_MEM_STRUCT_CACHE, ntypes, field)
        value == << <<"value", field>> >>
    IN
    /\ UnboundCall("pin", o, fixed.exc)
    /\ IF fixed.exc # None
          THEN UNCHANGED <<classVars, selfVars, cacheVars>>
          ELSE /\ DYN_MEM_STRUCT_CACHE' = res.cache
               /\ ntypes' = res.ntypes
               /\ _dst_type' = fixed.dt
               /\ IF res.ntypes # ntypes
                     THEN /\ fields' = Put(fields, res.type, value)
                          /\ _attrs' = Put(_attrs, res.type,
                                           gen_fields(value, None).attrs)
                          /\ _size' = Put(_size, res.type,
                                          gen_fields(value, None).size)
                          /\ _self_type' =
                                [_self_type EXCEPT ![o] = res.type]
                     ELSE UNCHANGED <<classVars, _self_type>>
    /\ UNCHANGED <<vm, hist, views, allocVars>>

NextUnbound ==
    \/ \E cls \in UserClasses, cls_fields \in SelfFieldLists :
          UnboundDeclare(cls, cls_fields)
    \/ \E o \in SelfPtrObjs : UnboundDstType(o)
    \/ \E o \in SelfPtrObjs, addr \in {0, 4} : UnboundDerefGet(o, addr)
    \/ \E o \in SelfPtrObjs, addr \in {4, 8}, cls \in UserClasses :
          UnboundDerefSet(o, addr, View(cls, 0))
    \/ \E o \in SelfPtrObjs : UnboundPin(o)

SpecUnbound == InitUnbound /\ [][NextUnbound]_vars

\* The objects a declared class lists, with the element of a listed Array
\* and the target of a listed Ptr.
EnclosedObjs ==
    {o \in Objs : \E cls \in DOMAIN fields \cap UserClasses :
                     \E i \in 1..Len(fields[cls]) : fields[cls][i][1] = TopOf(o)}

\* C22: reading dst_type, deref_get and deref_set of a pointer to the Self
\* marker that no struct encloses fail, create no view and write no byte.
C22_UnboundSelf ==
    (last.op \in {"dst_type", "deref_get", "deref_set", "pin"}
        /\ last.obj \notin EnclosedObjs)
       => /\ last.exc # None
          /\ views = last.views
          /\ vm = last.before
          /\ _dst_type[last.obj] = PinnedSelf

\* A deref_set of the free-standing p after a class was declared without it.
C22_Witness ==
    /\ last.op = "deref_set" /\ last.obj = "p" /\ last.exc = "ValueError"
    /\ "p" \notin EnclosedObjs /\ "qi" \in EnclosedObjs
    /\ vm = last.before

(***************************************************************************)
(* SpecBitField: BitField(backing_num, bit_list) constructed from lists of *)
(* widths whose sum is below, at and above the bits of the backing number. *)
(***************************************************************************)
RECURSIVE BitField_offset(_, _)
\* offset after the first i entries of bit_list: offset += bits
BitField_offset(bit_list, i) ==
    IF i = 0 THEN 0 ELSE BitField_offset(bit_list, i - 1) + bit_list[i][2]

\* A mutant of BitField.__init__ that also refuses a list which fills the
\* backing number.
BitField_init_Strict(backing_num, bit_list) ==
    IF BitField_offset(bit_list, Len(bit_list)) >= size(backing_num) * 8
       THEN [exc |-> "ValueError", field |-> Num("B")]
       ELSE [exc |-> None, field |-> BitField(backing_num, bit_list)]

\* BitField.__init__: the exception it raises and the descriptor it makes
\* (field is of no use when it raises).
BitField_init(backing_num, bit_list) ==
    IF BitField_offset(bit_list, Len(bit_list)) > size(backing_num) * 8
       THEN [exc |-> "ValueError", field |-> Num("B")]
       ELSE [exc |-> None, field |-> BitField(backing_num, bit_list)]

\* Union.size, which BitField inherits: the largest of the sizes of its Bits.
Union_size(field) ==
    Max({size(field.field_list[i][2]) : i \in 1..Len(field.field_list)})

BitWidths == {1, 3, 4, 5, 9}

BitNames == <<"f1", "f2", "f3", "f4", "f5">>

\* The lists [(name, bits)] of 1 to MaxBitList entries.
BitLists ==
    UNION {{[k \in 1..n |-> <<BitNames[k], w[k]>>] : w \in [1..n -> BitWidths]} :
              n \in 1..MaxBitList}

InitBitField ==
    /\ vm = ZeroMem
    /\ last = NoCall /\ hist = <<>> /\ nops = 0 /\ views = {}
    /\ NoClasses /\ NoSelf /\ NoCache /\ NoAlloc

\* BitField(backing_num, bit_list), then size() of the descriptor made.
BitFieldConstruct(backing_num, bit_list) ==
    LET res == BitField_init(backing_num, bit_list) IN
    /\ last' = [op |-> "BitField", num |-> backing_num, bit_list |-> bit_list,
                exc |-> res.exc, field |-> res.field,
                size |-> IF res.exc = None THEN Union_size(res.field) ELSE 0]
    /\ UNCHANGED <<vm, hist, nops, views, classVars, selfVars, cacheVars,
                   allocVars>>

NextBitField ==
    \E backing_num \in {Num("B"), Num("<H")}, bit_list \in BitLists :
       BitFieldConstruct(backing_num, bit_list)

SpecBitField == InitBitField /\ [][NextBitField]_vars

RECURSIVE SumWidths(_, _)
\* The sum of the widths of the first k entries.
SumWidths(bit_list, k) ==
    IF k = 0 THEN 0 ELSE bit_list[k][2] + SumWidths(bit_list, k - 1)

\* C23: the construction succeeds iff the sum of the widths is at most
\* 8 * num.size(); then field k is Bits of its width at the offset that is
\* the sum of the widths before it, and the size is num.size().
C23_BitField ==
    last.op = "BitField" =>
       LET total == SumWidths(last.bit_list, Len(last.bit_list)) IN
       /\ (last.exc = None) = (total <= 8 * calcsize(last.num.fmt))
       /\ last.exc = None =>
             /\ last.size = calcsize(last.num.fmt)
             /\ Len(last.field.field_list) = Len(last.bit_list)
             /\ \A k \in 1..Len(last.bit_list) :
                   /\ last.field.field_list[k][1] = last.bit_list[k][1]
                   /\ last.field.field_list[k][2].bits = last.bit_list[k][2]
                   /\ last.field.field_list[k][2].bit_offset
                         = SumWidths(last.bit_list, k - 1)
                   /\ last.field.field_list[k][2].num = last.num

\* Widths 3 and 5 fill the 8 bits of Num("B"): f2 is at offset 3.
C23_Witness ==
    /\ last.op = "BitField" /\ last.exc = None /\ last.num = Num("B")
    /\ last.bit_list = << <<"f1", 3>>, <<"f2", 5>> >>
    /\ last.field.field_list[2][2].bit_offset = 3

(***************************************************************************)
(* SpecGen: a struct class S whose fields are generated again after its    *)
(* definition, with and without a list passed to gen_fields.               *)
(***************************************************************************)
GenLists ==
    { <<>>,
      << <<"a", Num("B")>> >>,
      << <<"a", Num("<H")>>, <<"b", Num("B")>> >>,
      << <<"b", Ptr("<I", "PinnedVoid")>>, <<"a", Num("B")>> >>,
      << <<"c", Array(Num("<H"), 2)>>, <<"a", Num("<I")>>, <<"d", Num("B")>> >> }

\* The argument of gen_fields: fields=None, or a list.
GenNoArg == [given |-> FALSE]

GenArg(l) == [given |-> TRUE, fields |-> l]

InitGen ==
    /\ vm = ZeroMem
    /\ last = NoCall /\ hist = <<>> /\ nops = 0 /\ views = {}
    /\ NoClasses /\ NoSelf /\ NoCache /\ NoAlloc

\* class S(PinnedStruct): fields = field_list
GenDeclare(field_list) ==
    /\ "S" \notin DOMAIN fields
    /\ fields' = Put(fields, "S", field_list)
    /\ _attrs' = Put(_attrs, "S", gen_fields(field_list, GenNoArg).attrs)
    /\ _size' = Put(_size, "S", gen_fields(field_list, GenNoArg).size)
    /\ last' = [op |-> "class", exc |-> None]
    /\ UNCHANGED <<vm, hist, nops, views, selfVars, cacheVars, allocVars>>

\* S.fields = field_list
GenAssignFields(field_list) ==
    /\ "S" \in DOMAIN fields
    /\ nops < MaxGenOps
    /\ nops' = nops + 1
    /\ fields' = [fields EXCEPT !["S"] = field_list]
    /\ last' = [op |-> "fields", exc |-> None]
    /\ UNCHANGED <<vm, hist, views, _attrs, _size, selfVars, cacheVars,
                   allocVars>>

\* S.gen_fields(arg)
GenFields(arg) ==
    /\ "S" \in DOMAIN fields
    /\ nops < MaxGenOps
    /\ nops' = nops + 1
    /\ _attrs' = [_attrs EXCEPT !["S"] = gen_fields(fields["S"], arg).attrs]
    /\ _size' = [_size EXCEPT !["S"] = gen_fields(fields["S"], arg).size]
    /\ last' = [op |-> "gen_fields", arg |-> arg, cls_fields |-> fields["S"],
                exc |-> None]
    /\ UNCHANGED <<vm, hist, views, fields, selfVars, cacheVars, allocVars>>

NextGen ==
    \/ \E field_list \in GenLists : GenDeclare(field_list)
    \/ \E field_list \in GenLists : GenAssignFields(field_list)
    \/ \E arg \in {GenNoArg} \cup {GenArg(l) : l \in GenLists} : GenFields(arg)

SpecGen == InitGen /\ [][NextGen]_vars

\* The list gen_fields(arg) is to generate from.
GenSource(arg, cls_fields) == IF arg.given THEN arg.fields ELSE cls_fields

\* C24: after S.gen_fields(fields) the directory, the offsets and the size
\* of S are those of the list passed, or of S.fields when none is passed:
\* every name of that list is at the offset the list gives it.
C24_GenFields ==
    last.op = "gen_fields" =>
       LET src == GenSource(last.arg, last.cls_fields) IN
       /\ DOMAIN _attrs["S"] = {src[i][1] : i \in 1..Len(src)}
       /\ \A i \in 1..Len(src) :
             /\ _attrs["S"][src[i][1]].field = src[i][2]
             /\ _attrs["S"][src[i][1]].offset = PrefixSize(src, i - 1)
       /\ _size["S"] = PrefixSize(src, Len(src))


(***************************************************************************)
(* SpecListAny: the linked list of the example with an allocator whose     *)
(* fresh regions are not zeroed.  PinnedType.__init__ only asks the        *)
(* allocator for an address: it writes nothing to the region it gets.      *)
(***************************************************************************)
\* The 4-byte words an allocated region can hold before it is written: zero,
\* or a stale pointer (here the address of the list structure, so that every
\* read stays inside the memory of the model).
ListFills == {0, HeapBase}

\* A region of n bytes whose little-endian 4-byte words all hold fill.
FilledPage(n, fill) == [k \in 1..n |-> IF (k - 1) % 4 = 0 THEN fill ELSE 0]

\* cls(vm) with an allocator that returns fresh regions after one another,
\* holding fill in every word.
ListAllocAny(mem, calls, cls, fill) ==
    LET res == PinnedType_init("vm_alloc", StructKind(cls), NoAddr,
                               vm_alloc_addr(calls))
    IN  [view  |-> View(cls, res.addr),
         calls |-> calls \o res.calls,
         mem   |-> set_mem(mem, res.addr,
                           FilledPage(PinnedStruct_sizeof(cls), fill))]

\* link.push(DataArray(vm)), both regions holding fill when allocated.
AnyPushNew(fill) ==
    LET new == ListAllocAny(vm, alloc_calls, "DataArray", fill)
        res == push_node(ListAllocAny(new.mem, new.calls, "ListNode", fill),
                         link, new.view)
    IN
    /\ nops < MaxListOps
    /\ nops' = nops + 1
    /\ vm' = res.mem
    /\ alloc_calls' = res.calls
    /\ views' = views \cup {new.view}
    /\ hist' = <<new.view.addr>> \o hist
    /\ last' = [op |-> "push", ret |-> NoVal, exc |-> None,
                top |-> NoAddr, data_type |-> None]
    /\ UNCHANGED <<classVars, selfVars, cacheVars, ALLOCATOR>>

\* link.pop(data_type)
AnyPop(data_type) ==
    LET res == pop(vm, link, data_type) IN
    /\ nops < MaxListOps
    /\ nops' = nops + 1
    /\ vm' = res.mem
    /\ hist' = IF hist = <<>> THEN hist ELSE Tail(hist)
    /\ last' = [op |-> "pop", ret |-> res.ret, exc |-> res.exc,
                top |-> IF hist = <<>> THEN NoAddr ELSE Head(hist),
                data_type |-> data_type]
    /\ UNCHANGED <<views, classVars, selfVars, cacheVars, allocVars>>

NextListAny ==
    \/ \E fill \in ListFills : AnyPushNew(fill)
    \/ \E data_type \in {None, "DataArray"} : AnyPop(data_type)

SpecListAny == InitList /\ [][NextListAny]_vars

RECURSIVE ListChain(_, _, _)
\* The addresses of the nodes from the node at addr on, following next, at
\* most n of them.
ListChain(mem, addr, n) ==
    IF addr = 0 \/ n = 0 THEN <<>>
    ELSE <<addr>> \o ListChain(mem, get_field(mem, View("ListNode", addr),
                                              "next"), n - 1)

\* C25: on the zero-filled list, whatever the allocated regions held, head is
\* null exactly when tail is null and exactly when size is 0; following next
\* from head reaches null after exactly size nodes; tail is the last of them;
\* and a pop of a non-empty list returns the data of the most recently pushed
\* element not yet popped.
C25_ListInvariant ==
    LET head  == get_field(vm, link, "head")
        tail  == get_field(vm, link, "tail")
        sz    == get_field(vm, link, "size")
        chain == ListChain(vm, head, MaxListOps + 2)
    IN  /\ (head = 0) = (tail = 0)
        /\ (head = 0) = (sz = 0)
        /\ Len(chain) = sz
        /\ sz > 0 => tail = chain[Len(chain)]
        /\ (last.op = "pop" /\ last.top # NoAddr) =>
              /\ last.exc = None
              /\ last.ret = View(IF last.data_type = None THEN "PinnedVoid"
                                 ELSE last.data_type, last.top)

\* C26: a write that raises for a length mismatch, an unsupported value type
\* or an element that does not fit its numeric format (an Array assignment
\* from a list or a view, a slice assignment, an element assignment) leaves
\* every byte of the memory as it was before the call.
C26_FailedWrite ==
    (/\ last.op \in {"array_set", "setslice", "setitem"}
     /\ last.exc \in {"ValueError", "RuntimeError", "struct.error"})
       => vm = last.before

(***************************************************************************)
(* SpecSlice: slice reads with omitted bounds and iteration of two sized   *)
(* array views at the same address: 3 elements of 1 byte, 3 elements of 2. *)
(* A bound of a slice is IntVal(n), or NoVal when it is omitted.           *)
(***************************************************************************)
SliceViews ==
    {PinnedSizedArray(4, Num("B"), 3), PinnedSizedArray(4, Num("<H"), 3)}

\* PinnedArray._normalize_slice: start, stop and step as numbers.
_normalize_slice(view, sl) ==
    << IF sl.start # NoVal THEN sl.start.int ELSE 0,
       IF sl.stop # NoVal THEN sl.stop.int ELSE PinnedSizedArray_get_size(view),
       IF sl.step # NoVal THEN sl.step.int ELSE 1 >>

RECURSIVE getitem_loop(_, _, _, _, _, _)
\* for i in idxs: res.append(self._field_type.get(self._vm,
\* self.index2addr(i))), from the k-th index on; res and the addresses read
\* so far are given.
getitem_loop(mem, view, idxs, k, res, touched) ==
    IF k > Len(idxs) THEN [exc |-> None, vals |-> res, touched |-> touched]
    ELSE LET one == getitem(mem, view, idxs[k]) IN
         IF one.exc # None
            THEN [exc |-> one.exc, vals |-> <<>>,
                  touched |-> touched \cup one.touched]
            ELSE getitem_loop(mem, view, idxs, k + 1, Append(res, one.val),
                              touched \cup one.touched)

\* self[sl] for a slice: the list returned, what is raised, the addresses
\* read.
getitem_slice(mem, view, sl) ==
    LET idx == _normalize_slice(view, sl) IN
    getitem_loop(mem, view, xrange(idx[1], idx[2], idx[3]), 1, <<>>, {})

\* list(view): PinnedSizedArray.__iter__.
PinnedSizedArray_iter(mem, view) ==
    getitem_loop(mem, view, xrange(0, view.array_len, 1), 1, <<>>, {})

\* The slices read: view[:], view[a:], view[a:b].
SliceBounds == {NoVal, IntVal(0), IntVal(1), IntVal(2)}

Slices ==
    {[start |-> a, stop |-> NoVal, step |-> NoVal] : a \in SliceBounds}
       \cup {[start |-> IntVal(1), stop |-> IntVal(3), step |-> NoVal]}

SliceItems == {7, 258}

InitSlice ==
    /\ vm = ZeroMem
    /\ last = NoCall /\ hist = <<>> /\ nops = 0
    /\ views = SliceViews
    /\ NoClasses /\ NoSelf /\ NoCache /\ NoAlloc

\* view[idx] = item
SliceSetItem(view, idx, item) ==
    LET res == setitem(vm, view, idx, item) IN
    /\ nops < MaxSliceOps
    /\ nops' = nops + 1
    /\ vm' = res.mem
    /\ last' = [op |-> "setitem", view |-> view, sl |-> NoVal,
                exc |-> res.exc, vals |-> <<>>, iter |-> <<>>,
                touched |-> res.touched]
    /\ UNCHANGED <<hist, views, classVars, selfVars, cacheVars, allocVars>>

\* view[sl]; iter is what iterating the view gives in the same memory.
SliceGetItem(view, sl) ==
    LET res == getitem_slice(vm, view, sl) IN
    /\ nops < MaxSliceOps
    /\ nops' = nops + 1
    /\ last' = [op |-> "getslice", view |-> view, sl |-> sl, exc |-> res.exc,
                vals |-> res.vals, iter |-> PinnedSizedArray_iter(vm, view).vals,
                touched |-> res.touched]
    /\ UNCHANGED <<vm, hist, views, classVars, selfVars, cacheVars, allocVars>>

\* list(view)
SliceIter(view) ==
    LET res == PinnedSizedArray_iter(vm, view) IN
    /\ nops < MaxSliceOps
    /\ nops' = nops + 1
    /\ last' = [op |-> "iter", view |-> view, sl |-> NoVal, exc |-> res.exc,
                vals |-> res.vals, iter |-> res.vals, touched |-> res.touched]
    /\ UNCHANGED <<vm, hist, views, classVars, selfVars, cacheVars, allocVars>>

NextSlice ==
    \/ \E view \in SliceViews, idx \in 0..2, item \in SliceItems :
          SliceSetItem(view, idx, item)
    \/ \E view \in SliceViews, sl \in Slices : SliceGetItem(view, sl)
    \/ \E view \in SliceViews : SliceIter(view)

SpecSlice == InitSlice /\ [][NextSlice]_vars

\* C27: a slice read with the stop omitted, view[:] or view[a:], returns
\* the elements a..n-1 of the view, so view[:] returns what iterating the
\* view returns, and it reads only bytes of the array.
C27_SliceRead ==
    (last.op = "getslice" /\ last.sl.stop = NoVal) =>
       LET a == IF last.sl.start = NoVal THEN 0 ELSE last.sl.start.int IN
       /\ last.exc = None
       /\ last.vals = SubSeq(last.iter, a + 1, last.view.array_len)
       /\ last.touched \subseteq ArrayRange(last.view)
============================================================================
